---- MODULE Spec2Model ----
(***************************************************************************)
(* A model of the dreadlang compiler: the code generator of                *)
(* internal/codegen (AST -> assembly text), fed either with a Program      *)
(* built directly or with one produced by the parser from a token stream.  *)
(*                                                                         *)
(* The assembly text is kept as a sequence of lines; a line is a tuple of  *)
(* strings <<mnemonic, operand, ...>>.  Trailing "# ..." remarks on an     *)
(* instruction line are dropped, stand-alone comment lines are kept as     *)
(* <<"#", text>>.  `lea r, [sym]` is <<"lea", r, sym>>.                     *)
(***************************************************************************)
EXTENDS Integers, Sequences, FiniteSets, TLC

VARIABLES
    source,           \* the characters of the source file, or <<>> when the Program was built directly
    errors,           \* p.errors after ParseProgram
    pc,               \* position of the driver: "source", "parsed", "done"
    program,          \* the parser.Program under compilation
    generator,        \* the one long-lived CodeGenerator: its pool, counter and output
    calls,            \* number of Generate calls made on this CodeGenerator
    compiled,         \* argument of the latest Generate call
    results,          \* strings returned by Generate on freshly constructed generators
    lexer,            \* the Lexer a caller pulls tokens from
    tokens            \* the tokens its NextToken calls have returned so far

vars == <<source, errors, pc, program, generator, calls, compiled, results, lexer, tokens>>

(***************************************************************************)
(* Bounds                                                                  *)
(***************************************************************************)
MaxStmts == 2     \* statements in the function body under test
MaxCalls == 2     \* Generate calls on one CodeGenerator
MaxRuns  == 2     \* independent fresh generators compared with each other
MaxParams == 2    \* parameters of a function header handed to the parser
MaxInput == 3     \* pieces (characters or keywords) of a text handed to the lexer
MaxChunks == 3    \* pieces of a source text handed to the parser

(***************************************************************************)
(* Maps (Go map[string]string)                                             *)
(***************************************************************************)
EmptyMap == <<>>

Put(m, k, v) == [n \in (DOMAIN m) \cup {k} |-> IF n = k THEN v ELSE m[n]]

Has(m, k) == k \in DOMAIN m

Range(f) == {f[i] : i \in DOMAIN f}

(***************************************************************************)
(* AST nodes (parser package types)                                        *)
(***************************************************************************)
StringLiteral(v)     == [kind |-> "StringLiteral", Value |-> v]
IntegerLiteral(v)    == [kind |-> "IntegerLiteral", Value |-> v]
Identifier(v)        == [kind |-> "Identifier", Value |-> v]
CallExpression(f, a) == [kind |-> "CallExpression", Function |-> f, Arguments |-> a]
NilNode              == [kind |-> "nil"]

AssignStatement(n, v) == [kind |-> "AssignStatement", Name |-> n, Value |-> v]
CallStatement(f, a)   == [kind |-> "CallStatement", Function |-> f, Arguments |-> a]
BlockStatement(ss)    == [kind |-> "BlockStatement", Statements |-> ss]
Parameter(n, t)       == [Name |-> n, Type |-> t]

FunctionStatement(e, n, ps, rt, body) ==
    [kind |-> "FunctionStatement", IsEntry |-> e, Name |-> n,
     Parameters |-> ps, ReturnType |-> rt, Body |-> body]

Program(ss) == [Statements |-> ss]

(***************************************************************************)
(* fmt.Sprintf("%d", v) and strconv.ParseInt(s, 10, 64)                    *)
(***************************************************************************)
FmtD(v) == ToString(v)

IntRange == -9 .. 999

\* ParseInt over the texts of this model: canonical decimals of IntRange
\* parse, every other text is an error.
ParseInt(s) ==
    IF \E v \in IntRange : ToString(v) = s
    THEN [ok |-> TRUE, val |-> CHOOSE v \in IntRange : ToString(v) = s]
    ELSE [ok |-> FALSE, val |-> 0]

(***************************************************************************)
(* The generator object                                                    *)
(***************************************************************************)
\* trace and fn are history fields: they record what was generated and
\* never influence it.
NewCG == [output |-> <<>>, stringConstants |-> EmptyMap, stringCounter |-> 0,
          trace |-> <<>>, fn |-> ""]

Emit(cg, lines) == [cg EXCEPT !.output = @ \o lines]

\* Evaluated(v) is TRUE, and v has been computed when it is: a loop tests it
\* on the state its previous iteration left, as the Go statements run one
\* after the other.
Evaluated(v) == v = v

getStringLabelDup(cg, literal) ==
    LET label == "str_" \o ToString(cg.stringCounter)
    IN  [cg |-> [cg EXCEPT !.stringConstants = Put(@, literal, label),
                           !.stringCounter = @ + 1],
         label |-> label]

getStringLabel(cg, literal) ==
    IF Has(cg.stringConstants, literal)
    THEN [cg |-> cg, label |-> cg.stringConstants[literal]]
    ELSE LET label == "str_" \o ToString(cg.stringCounter)
         IN  [cg |-> [cg EXCEPT !.stringConstants = Put(@, literal, label),
                                !.stringCounter = @ + 1],
              label |-> label]

getStringFromLabel(cg, labelName) ==
    IF \E content \in DOMAIN cg.stringConstants : cg.stringConstants[content] = labelName
    THEN [content |-> CHOOSE content \in DOMAIN cg.stringConstants :
                          cg.stringConstants[content] = labelName,
          found |-> TRUE]
    ELSE [content |-> "", found |-> FALSE]

\* Each strings.ReplaceAll of processString replaces a two-character escape
\* by the same two characters, so the result is the argument.
processString(s) == s

(***************************************************************************)
(* Print sites                                                             *)
(***************************************************************************)
generatePrint(cg, label) ==
    Emit(cg, << <<"#", "Print(" \o label \o ")">>,
                <<"lea", "rdi", label>>,
                <<"call", "strlen">>,
                <<"mov", "rdx", "rax">>,
                <<"mov", "rax", "1">>,
                <<"mov", "rdi", "1">>,
                <<"lea", "rsi", label>>,
                <<"syscall">> >>)

generatePrintFromRegister(cg) ==
    Emit(cg, << <<"#", "Print(parameter from rdi)">>,
                <<"call", "strlen">>,
                <<"mov", "rdx", "rax">>,
                <<"mov", "rax", "1">>,
                <<"mov", "rsi", "rdi">>,
                <<"mov", "rdi", "1">>,
                <<"syscall">> >>)

\* A print of a call result that skips the load of the address from rax.
generatePrintFromRaxStale(cg) ==
    Emit(cg, << <<"#", "Print(return value from rax)">>,
                <<"call", "strlen">>,
                <<"mov", "rdx", "rax">>,
                <<"mov", "rax", "1">>,
                <<"mov", "rsi", "rdi">>,
                <<"mov", "rdi", "1">>,
                <<"syscall">> >>)

generatePrintFromRax(cg) ==
    Emit(cg, << <<"#", "Print(return value from rax)">>,
                <<"mov", "rdi", "rax">>,
                <<"call", "strlen">>,
                <<"mov", "rdx", "rax">>,
                <<"mov", "rax", "1">>,
                <<"mov", "rsi", "rdi">>,
                <<"mov", "rdi", "1">>,
                <<"syscall">> >>)

\* lea rdi,[l]; call strlen; ...; lea rsi,[l]; syscall
printLabelInline(label) ==
    << <<"lea", "rdi", label>>,
       <<"call", "strlen">>,
       <<"mov", "rdx", "rax">>,
       <<"mov", "rax", "1">>,
       <<"mov", "rdi", "1">>,
       <<"lea", "rsi", label>>,
       <<"syscall">> >>

\* The value dispatch shared verbatim by the three integer print sites.
printIntegerDispatch(cg0) ==
    LET c1 == Emit(cg0, << <<"#", "Convert integer to string (specific test values)">>,
                           <<"cmp", "rdi", "456">>,
                           <<"je", "print_int_456">>,
                           <<"cmp", "rdi", "789">>,
                           <<"je", "print_int_789">>,
                           <<"#", "Fallback: print 0 for unknown integers">> >>)
        z  == getStringLabel(c1, "0")
        c2 == Emit(z.cg, printLabelInline(z.label) \o
                         << <<"jmp", "print_int_done">>, <<"label", "print_int_456">> >>)
        a  == getStringLabel(c2, "456")
        c3 == Emit(a.cg, printLabelInline(a.label) \o
                         << <<"jmp", "print_int_done">>, <<"label", "print_int_789">> >>)
        b  == getStringLabel(c3, "789")
    IN  Emit(b.cg, printLabelInline(b.label) \o << <<"label", "print_int_done">> >>)

generatePrintIntegerFromR15(cg) ==
    printIntegerDispatch(
        Emit(cg, << <<"#", "Print(integer parameter from r15)">>,
                    <<"mov", "rdi", "r15">> >>))

generatePrintIntegerFromStack(cg) ==
    printIntegerDispatch(
        Emit(cg, << <<"#", "Print(integer parameter from stack)">>,
                    <<"mov", "rdi", "[rbp + 16]">> >>))

generatePrintIntegerFromRDI(cg) ==
    printIntegerDispatch(
        Emit(cg, << <<"#", "Print(integer parameter from rdi)">> >>))

(***************************************************************************)
(* Binding-table markers                                                   *)
(***************************************************************************)
IdentNames == {"x", "y", "f", "g", "h", "main", "second"}

ParamLabel(name) == "param_" \o name

\* strings.HasPrefix(label, "param_"): the labels of this model that start
\* with "param_" are exactly the ParamLabel(name).
HasParamPrefix(label) == \E n \in IdentNames : label = ParamLabel(n)

(***************************************************************************)
(* Assignments                                                             *)
(***************************************************************************)
RECURSIVE setupAssignArgs(_, _, _, _)
setupAssignArgs(cg, variables, args, i) ==
    IF i > Len(args) THEN cg
    ELSE LET a == args[i] IN
         CASE a.kind = "StringLiteral" ->
                LET r == getStringLabel(cg, a.Value) IN
                setupAssignArgs(IF i = 1 THEN Emit(r.cg, << <<"lea", "rdi", r.label>> >>) ELSE r.cg,
                                variables, args, i + 1)
           [] a.kind = "IntegerLiteral" ->
                LET r == getStringLabel(cg, FmtD(a.Value)) IN
                setupAssignArgs(IF i = 1 THEN Emit(r.cg, << <<"lea", "rdi", r.label>> >>) ELSE r.cg,
                                variables, args, i + 1)
           [] a.kind = "Identifier" ->
                setupAssignArgs(IF Has(variables, a.Value) /\ i = 1
                                THEN Emit(cg, << <<"lea", "rdi", variables[a.Value]>> >>)
                                ELSE cg,
                                variables, args, i + 1)
           [] OTHER -> setupAssignArgs(cg, variables, args, i + 1)

generateAssignStatement(cg, variables, stmt) ==
    LET expr == stmt.Value IN
    CASE expr.kind = "StringLiteral" ->
           LET r == getStringLabel(cg, expr.Value) IN
           [cg |-> r.cg, variables |-> Put(variables, stmt.Name, r.label)]
      [] expr.kind = "IntegerLiteral" ->
           LET r == getStringLabel(cg, FmtD(expr.Value)) IN
           [cg |-> r.cg, variables |-> Put(variables, stmt.Name, r.label)]
      [] expr.kind = "Identifier" ->
           [cg |-> cg,
            variables |-> IF Has(variables, expr.Value)
                          THEN Put(variables, stmt.Name, variables[expr.Value])
                          ELSE variables]
      [] expr.kind = "CallExpression" ->
           LET c1 == Emit(cg, << <<"#", stmt.Name \o " = " \o expr.Function \o "()">> >>)
               c2 == IF Len(expr.Arguments) = 0
                     THEN Emit(c1, << <<"call", expr.Function>> >>)
                     ELSE Emit(setupAssignArgs(
                                   Emit(c1, << <<"#", "Setup parameters for assignment call">> >>),
                                   variables, expr.Arguments, 1),
                               << <<"call", expr.Function>> >>)
           IN  [cg |-> c2, variables |-> Put(variables, stmt.Name, "rax")]
      [] OTHER -> [cg |-> cg, variables |-> variables]

(***************************************************************************)
(* Call statements: Print, Return, user functions                          *)
(***************************************************************************)
exitSequence(status) ==
    << <<"mov", "rax", "60">>, <<"mov", "rdi", status>>, <<"syscall">> >>

returnSequence ==
    << <<"mov", "rsp", "rbp">>, <<"pop", "rbp">>, <<"ret">> >>

generatePrintCall(cg, variables, stmt) ==
    IF Len(stmt.Arguments) = 0 THEN cg
    ELSE LET a == stmt.Arguments[1] IN
         CASE a.kind = "Identifier" ->
                IF Has(variables, a.Value)
                THEN LET label == variables[a.Value] IN
                     IF label = "INT_PARAM_R15" THEN generatePrintIntegerFromR15(cg)
                     ELSE IF label = "INT_PARAM_STACK" THEN generatePrintIntegerFromStack(cg)
                     ELSE IF label = "INT_PARAM_RDI" THEN generatePrintIntegerFromRDI(cg)
                     ELSE IF HasParamPrefix(label) THEN generatePrintFromRegister(cg)
                     ELSE IF label = "rax" THEN generatePrintFromRax(cg)
                     ELSE generatePrint(cg, label)
                ELSE cg
           [] a.kind = "StringLiteral" ->
                LET r == getStringLabel(cg, a.Value) IN generatePrint(r.cg, r.label)
           [] a.kind = "IntegerLiteral" ->
                LET r == getStringLabel(cg, FmtD(a.Value)) IN generatePrint(r.cg, r.label)
           [] OTHER -> cg

generateReturnCall(cg, variables, stmt, isEntry) ==
    IF Len(stmt.Arguments) = 0 THEN cg
    ELSE LET a == stmt.Arguments[1] IN
         CASE a.kind = "StringLiteral" ->
                IF isEntry
                THEN Emit(cg, << <<"#", "Return(" \o a.Value \o ")">> >> \o exitSequence(a.Value))
                ELSE LET r == getStringLabel(cg, a.Value) IN
                     Emit(r.cg, << <<"#", "Return(" \o a.Value \o ")">>,
                                   <<"lea", "rax", r.label>> >> \o returnSequence)
           [] a.kind = "IntegerLiteral" ->
                IF isEntry
                THEN Emit(cg, << <<"#", "Return(" \o FmtD(a.Value) \o ")">> >>
                              \o exitSequence(FmtD(a.Value)))
                ELSE LET r == getStringLabel(cg, FmtD(a.Value)) IN
                     Emit(r.cg, << <<"#", "Return(" \o FmtD(a.Value) \o ")">>,
                                   <<"lea", "rax", r.label>> >> \o returnSequence)
           [] a.kind = "Identifier" ->
                IF Has(variables, a.Value)
                THEN LET label == variables[a.Value] IN
                     IF isEntry
                     THEN LET c1 == Emit(cg, << <<"#", "Return(variable " \o a.Value \o ")">> >>)
                              s  == getStringFromLabel(cg, label)
                          IN  IF s.found THEN Emit(c1, exitSequence(s.content))
                                         ELSE Emit(c1, exitSequence("0"))
                     ELSE Emit(cg, << <<"#", "Return(variable " \o a.Value \o ")">>,
                                      <<"lea", "rax", label>> >> \o returnSequence)
                ELSE LET c1 == Emit(cg, << <<"#", "Return(undefined variable "
                                                  \o a.Value \o ") - using 0">> >>)
                     IN  IF isEntry THEN Emit(c1, exitSequence("0")) ELSE c1
           [] OTHER -> cg

RECURSIVE setupCallArgs(_, _, _, _)
setupCallArgs(cg, variables, args, i) ==
    IF i > Len(args) THEN cg
    ELSE LET a == args[i]
             todo == << <<"#", "TODO: Multiple parameters not yet implemented">> >>
         IN
         CASE a.kind = "StringLiteral" ->
                LET r == getStringLabel(cg, a.Value) IN
                setupCallArgs(IF i = 1 THEN Emit(r.cg, << <<"lea", "rdi", r.label>> >>)
                                       ELSE Emit(r.cg, todo),
                              variables, args, i + 1)
           [] a.kind = "IntegerLiteral" ->
                setupCallArgs(IF i = 1 THEN Emit(cg, << <<"mov", "rdi", FmtD(a.Value)>> >>)
                                       ELSE Emit(cg, todo),
                              variables, args, i + 1)
           [] a.kind = "Identifier" ->
                IF Has(variables, a.Value) /\ i = 1
                THEN LET label == variables[a.Value]
                         s == getStringFromLabel(cg, label)
                         n == ParseInt(s.content)
                     IN  setupCallArgs(
                             IF s.found /\ n.ok
                             THEN Emit(cg, << <<"mov", "rdi", FmtD(n.val)>> >>)
                             ELSE Emit(cg, << <<"lea", "rdi", label>> >>),
                             variables, args, i + 1)
                ELSE setupCallArgs(cg, variables, args, i + 1)
           [] OTHER -> setupCallArgs(cg, variables, args, i + 1)

generateUserCall(cg, variables, stmt) ==
    LET c1 == Emit(cg, << <<"#", "Call " \o stmt.Function>> >>) IN
    IF Len(stmt.Arguments) = 0
    THEN Emit(c1, << <<"call", stmt.Function>> >>)
    ELSE Emit(setupCallArgs(Emit(c1, << <<"#", "Setup parameters">> >>),
                            variables, stmt.Arguments, 1),
              << <<"call", stmt.Function>> >>)

\* A call statement that binds the callee's name to the returned value.
generateCallStatementBinding(cg, variables, stmt, isEntry) ==
    [cg |-> CASE stmt.Function = "Print"  -> generatePrintCall(cg, variables, stmt)
              [] stmt.Function = "Return" -> generateReturnCall(cg, variables, stmt, isEntry)
              [] OTHER                    -> generateUserCall(cg, variables, stmt),
     variables |-> IF stmt.Function \in {"Print", "Return"} THEN variables
                   ELSE Put(variables, stmt.Function, "rax")]

generateCallStatement(cg, variables, stmt, isEntry) ==
    [cg |-> CASE stmt.Function = "Print"  -> generatePrintCall(cg, variables, stmt)
              [] stmt.Function = "Return" -> generateReturnCall(cg, variables, stmt, isEntry)
              [] OTHER                    -> generateUserCall(cg, variables, stmt),
     variables |-> variables]

(***************************************************************************)
(* Function bodies                                                         *)
(***************************************************************************)
RECURSIVE setupParams(_, _, _, _)
setupParams(cg, variables, params, i) ==
    IF i > Len(params) THEN [cg |-> cg, variables |-> variables]
    ELSE LET param == params[i] IN
         IF i = 1
         THEN IF param.Type = "Int"
              THEN setupParams(
                       Emit(cg, << <<"#", "Save integer parameter " \o param.Name
                                          \o " from rdi to r15">>,
                                   <<"mov", "r15", "rdi">> >>),
                       Put(variables, param.Name, "INT_PARAM_R15"), params, i + 1)
              ELSE setupParams(
                       Emit(cg, << <<"#", "String parameter " \o param.Name
                                          \o " address available in rdi">> >>),
                       Put(variables, param.Name, ParamLabel(param.Name)), params, i + 1)
         ELSE setupParams(
                  Emit(cg, << <<"#", "TODO: Multiple parameters not yet implemented (param "
                                     \o param.Name \o ")">> >>),
                  variables, params, i + 1)

\* The history record of statement i: r is the generator and the binding
\* table the statement left.
recordStatement(cg, variables, stmt, isEntry, i, r) ==
    [cg |-> [r.cg EXCEPT !.trace = Append(@,
                [fn |-> cg.fn, isEntry |-> isEntry, index |-> i, stmt |-> stmt,
                 lines |-> SubSeq(r.cg.output, Len(cg.output) + 1, Len(r.cg.output)),
                 before |-> variables, after |-> r.variables])],
     variables |-> r.variables]

\* One iteration of the statement loop.
generateStatement(cg, variables, stmt, isEntry, i) ==
    recordStatement(cg, variables, stmt, isEntry, i,
        CASE stmt.kind = "AssignStatement" -> generateAssignStatement(cg, variables, stmt)
          [] stmt.kind = "CallStatement"   -> generateCallStatement(cg, variables, stmt, isEntry)
          [] OTHER -> [cg |-> cg, variables |-> variables])

\* The statement loop from statement i on; st is the generator and the
\* binding table.
RECURSIVE generateStatements(_, _, _, _)
generateStatements(st, stmts, isEntry, i) ==
    IF Evaluated(st) /\ i <= Len(stmts)
    THEN generateStatements(generateStatement(st.cg, st.variables, stmts[i], isEntry, i),
                            stmts, isEntry, i + 1)
    ELSE st.cg

generateBlockStatementWithParams(cg, block, isEntry, params) ==
    generateStatements(setupParams(cg, EmptyMap, params, 1), block.Statements, isEntry, 1)

generateFunction(cg, funcStmt) ==
    Emit(generateBlockStatementWithParams(
             Emit([cg EXCEPT !.fn = funcStmt.Name],
                  IF ~funcStmt.IsEntry
                  THEN << <<"label", funcStmt.Name>>,
                          <<"push", "rbp">>,
                          <<"mov", "rbp", "rsp">> >>
                  ELSE <<>>),
             funcStmt.Body, funcStmt.IsEntry, funcStmt.Parameters),
         IF ~funcStmt.IsEntry
         THEN << <<"#", "Default function return">> >> \o returnSequence
         ELSE << <<"#", "Default exit">> >> \o exitSequence("0"))

generateStrlenFunction(cg) ==
    Emit(cg, << <<"#", "strlen function - calculates length of null-terminated string">>,
                <<"#", "Input: rdi = string address">>,
                <<"#", "Output: rax = string length">>,
                <<"label", "strlen">>,
                <<"push", "rbp">>,
                <<"mov", "rbp", "rsp">>,
                <<"mov", "rax", "0">>,
                <<"label", "strlen_loop">>,
                <<"cmp", "byte ptr [rdi + rax]", "0">>,
                <<"je", "strlen_done">>,
                <<"inc", "rax">>,
                <<"jmp", "strlen_loop">>,
                <<"label", "strlen_done">>,
                <<"mov", "rsp", "rbp">>,
                <<"pop", "rbp">>,
                <<"ret">> >>)

(***************************************************************************)
(* The string pool walk                                                    *)
(***************************************************************************)
RECURSIVE collectStringsFromExpression(_, _)
RECURSIVE collectStringsFromArguments(_, _, _)
collectStringsFromExpression(cg, e) ==
    CASE e.kind = "StringLiteral"  -> getStringLabel(cg, e.Value).cg
      [] e.kind = "IntegerLiteral" -> getStringLabel(cg, FmtD(e.Value)).cg
      [] e.kind = "CallExpression" -> collectStringsFromArguments(cg, e.Arguments, 1)
      [] OTHER -> cg

collectStringsFromArguments(cg, args, i) ==
    IF i > Len(args) THEN cg
    ELSE collectStringsFromArguments(collectStringsFromExpression(cg, args[i]), args, i + 1)

RECURSIVE collectStringsFromStatement(_, _)
RECURSIVE collectStringsFromStatements(_, _, _)
collectStringsFromStatement(cg, s) ==
    CASE s.kind = "FunctionStatement" -> collectStringsFromStatement(cg, s.Body)
      [] s.kind = "BlockStatement"    -> collectStringsFromStatements(cg, s.Statements, 1)
      [] s.kind = "AssignStatement"   -> collectStringsFromExpression(cg, s.Value)
      [] s.kind = "CallStatement"     -> collectStringsFromArguments(cg, s.Arguments, 1)
      [] OTHER -> cg

collectStringsFromStatements(cg, stmts, i) ==
    IF Evaluated(cg) /\ i <= Len(stmts)
    THEN collectStringsFromStatements(collectStringsFromStatement(cg, stmts[i]), stmts, i + 1)
    ELSE cg

collectStrings(cg, prog) == collectStringsFromStatements(cg, prog.Statements, 1)

(***************************************************************************)
(* Sections                                                                *)
(***************************************************************************)
writeHeader(cg) ==
    Emit(cg, << <<".intel_syntax", "noprefix">>, <<".global", "_start">> >>)

\* The orders in which `range` may visit a map with key set S.
Orders(S) ==
    {o \in [1 .. Cardinality(S) -> S] : \A i, j \in 1 .. Cardinality(S) : i # j => o[i] # o[j]}

dataEntries(m, order) ==
    [i \in 1 .. Len(order) |-> <<"asciz", m[order[i]], processString(order[i])>>]

writeDataEntries(cg, order) == Emit(cg, dataEntries(cg.stringConstants, order))

\* `order` is the order in which the range loop happens to visit the map.
writeDataSection(cg, prog, order) ==
    writeDataEntries(collectStrings(Emit(cg, << <<".section", ".data">> >>), prog), order)

isFunc(s) == s.kind = "FunctionStatement"

\* The first loop of writeTextSection and the default entry point.
generateEntryFunction(cg, stmts) ==
    LET entries == {i \in 1 .. Len(stmts) : isFunc(stmts[i]) /\ stmts[i].IsEntry}
        first == CHOOSE i \in entries : \A j \in entries : i <= j
    IN  IF entries # {}
        THEN generateFunction(Emit(cg, << <<"label", "_start">> >>), stmts[first])
        ELSE Emit(cg, << <<"label", "_start">>,
                         <<"#", "No Entry function found">> >> \o exitSequence("1"))

\* The second loop of writeTextSection, from statement i on.
RECURSIVE generateRegularFunctions(_, _, _)
generateRegularFunctions(cg, stmts, i) ==
    IF Evaluated(cg) /\ i <= Len(stmts)
    THEN generateRegularFunctions(
             IF isFunc(stmts[i]) /\ ~stmts[i].IsEntry
             THEN generateFunction(cg, stmts[i]) ELSE cg,
             stmts, i + 1)
    ELSE cg

\* A text section that emits the helper after the functions.
writeTextSectionHelperLast(cg, prog) ==
    generateStrlenFunction(
        generateRegularFunctions(
            generateEntryFunction(Emit(cg, << <<".section", ".text">> >>), prog.Statements),
            prog.Statements, 1))

writeTextSection(cg, prog) ==
    generateRegularFunctions(
        generateEntryFunction(
            generateStrlenFunction(Emit(cg, << <<".section", ".text">> >>)),
            prog.Statements),
        prog.Statements, 1)

\* Generate on generator state cg; cg.output.Reset() empties the output and
\* nothing else.
GenerateOn(cg, prog, order) ==
    writeTextSection(
        writeDataSection(writeHeader([cg EXCEPT !.output = <<>>, !.trace = <<>>, !.fn = ""]),
                         prog, order),
        prog)

\* The orders the data-section loop can take for this call.
PoolOrders(cg, prog) == Orders(DOMAIN collectStrings(cg, prog).stringConstants)

(***************************************************************************)
(* Lexer (internal/lexer).  The input is a sequence of characters, each a  *)
(* one-character string; NUL stands for the zero byte.  Go's 0-based       *)
(* position p is element p + 1 of the sequence.                            *)
(***************************************************************************)
NUL == "NUL"

Letters ==
    {"a", "b", "c", "d", "e", "f", "g", "h", "i", "j", "k", "l", "m",
     "n", "o", "p", "q", "r", "s", "t", "u", "v", "w", "x", "y", "z",
     "A", "B", "C", "D", "E", "F", "G", "H", "I", "J", "K", "L", "M",
     "N", "O", "P", "Q", "R", "S", "T", "U", "V", "W", "X", "Y", "Z", "_"}

Digits == {"0", "1", "2", "3", "4", "5", "6", "7", "8", "9"}

isLetter(ch) == ch \in Letters

isDigit(ch) == ch \in Digits

keywords ==
    [w \in {"Entry", "Print", "Return", "Int"} |->
        CASE w = "Entry"  -> "ENTRY"
          [] w = "Print"  -> "PRINT"
          [] w = "Return" -> "RETURN"
          [] w = "Int"    -> "INT_TYPE"]

\* The keywords and the delimiter that the parser names (lexer.FUNCTION,
\* lexer.STRING_TYPE, lexer.VOID_TYPE, lexer.COMMA) and this lexer.go does not
\* declare: the entries the keyword table and the switch of NextToken need
\* for the parser to be compiled against the lexer.
declaredKeywords ==
    [w \in {"Function", "String", "Void"} |->
        CASE w = "Function" -> "FUNCTION"
          [] w = "String"   -> "STRING_TYPE"
          [] w = "Void"     -> "VOID_TYPE"]

declaredDelimiters == [c \in {","} |-> "COMMA"]

lookupIdent(ident) ==
    IF ident \in DOMAIN keywords THEN keywords[ident]
    ELSE IF ident \in DOMAIN declaredKeywords THEN declaredKeywords[ident]
    ELSE "IDENT"

Token(t, lit, line, col) == [Type |-> t, Literal |-> lit, Line |-> line, Column |-> col]

\* The zero value of lexer.Token: ILLEGAL is TokenType 0.
ZeroToken == Token("ILLEGAL", "", 0, 0)

\* string(l.ch) of a byte converts it as a code point: a byte below 0x80 is
\* the one-byte string, a byte from 0x80 on becomes the two bytes of its
\* UTF-8 encoding.  The bytes from 0x80 on that this model meets:
HighBytes == {"xE9", "xC3", "xA9"}

runeBytes(ch) ==
    CASE ch = "xE9" -> <<"xC3", "xA9">>
      [] ch = "xC3" -> <<"xC3", "x83">>
      [] ch = "xA9" -> <<"xC2", "xA9">>

RECURSIVE Join(_)
Join(chars) == IF chars = <<>> THEN "" ELSE Head(chars) \o Join(Tail(chars))

byteString(ch) == IF ch \in HighBytes THEN Join(runeBytes(ch)) ELSE ch

\* l.input[from:to]
Slice(input, from, to) == Join(SubSeq(input, from + 1, to))

\* A slice expression panics unless 0 <= from <= to <= len(input).
SliceInRange(input, from, to) == 0 <= from /\ from <= to /\ to <= Len(input)

\* What a read loop hands back: the text, and the lexer, marked when the
\* slice expression panicked.
sliced(l, position) ==
    [l |-> [l EXCEPT !.panicked = @ \/ ~SliceInRange(l.input, position, l.position)],
     text |-> Slice(l.input, position, l.position)]

readChar(l) ==
    LET ch == IF l.readPosition >= Len(l.input) THEN NUL ELSE l.input[l.readPosition + 1]
    IN  [l EXCEPT !.ch = ch,
                  !.position = l.readPosition,
                  !.readPosition = l.readPosition + 1,
                  !.line = IF ch = "\n" THEN @ + 1 ELSE @,
                  !.column = IF ch = "\n" THEN 0 ELSE @ + 1]

peekChar(l) == IF l.readPosition >= Len(l.input) THEN NUL ELSE l.input[l.readPosition + 1]

NewLexer(input) ==
    readChar([input |-> input, position |-> 0, readPosition |-> 0, ch |-> NUL,
              line |-> 1, column |-> 0, panicked |-> FALSE])

RECURSIVE skipWhitespace(_)
skipWhitespace(l) ==
    IF l.ch \in {" ", "\t", "\n", "\r"} THEN skipWhitespace(readChar(l)) ELSE l

\* The loops of readIdentifier, readNumber and readString return the lexer
\* after the loop and l.input[position:l.position].
RECURSIVE readIdentifierLoop(_, _)
readIdentifierLoop(l, position) ==
    IF isLetter(l.ch) \/ isDigit(l.ch) \/ l.ch = "_"
    THEN readIdentifierLoop(readChar(l), position)
    ELSE sliced(l, position)

readIdentifier(l) == readIdentifierLoop(l, l.position)

RECURSIVE readNumberLoop(_, _)
readNumberLoop(l, position) ==
    IF isDigit(l.ch) THEN readNumberLoop(readChar(l), position)
    ELSE sliced(l, position)

readNumber(l) == readNumberLoop(l, l.position)

\* l is the lexer after the readChar at the top of the loop.
RECURSIVE readStringLoop(_, _)
readStringLoop(l, position) ==
    IF l.ch = "'" \/ l.ch = NUL
    THEN sliced(l, position)
    ELSE IF l.ch = "\\" /\ peekChar(l) # NUL
    THEN readStringLoop(readChar(readChar(l)), position)
    ELSE readStringLoop(readChar(l), position)

readString(l) == readStringLoop(readChar(l), l.position + 1)

RECURSIVE skipLineComment(_)
skipLineComment(l) ==
    IF l.ch # "\n" /\ l.ch # NUL THEN skipLineComment(readChar(l)) ELSE l

RECURSIVE skipBlockCommentLoop(_)
skipBlockCommentLoop(l) ==
    IF l.ch = NUL THEN l
    ELSE IF l.ch = "*" /\ peekChar(l) = "/" THEN readChar(readChar(l))
    ELSE skipBlockCommentLoop(readChar(l))

skipBlockComment(l) == skipBlockCommentLoop(readChar(readChar(l)))

\* A switch that has lost its case for the assignment operator.
SingleCharTypesNoAssign ==
    [c \in {"(", ")", "{", "}"} |->
        CASE c = "(" -> "LPAREN"
          [] c = ")" -> "RPAREN"
          [] c = "{" -> "LBRACE"
          [] c = "}" -> "RBRACE"]

SingleCharTypes ==
    [c \in {"=", "(", ")", "{", "}"} |->
        CASE c = "=" -> "ASSIGN"
          [] c = "(" -> "LPAREN"
          [] c = ")" -> "RPAREN"
          [] c = "{" -> "LBRACE"
          [] c = "}" -> "RBRACE"]

RECURSIVE NextToken(_)

\* The switch of NextToken on l.ch.
scanToken(l) ==
    LET here(t, lit) == Token(t, lit, l.line, l.column) IN
    IF l.ch \in DOMAIN SingleCharTypes
    THEN [l |-> readChar(l), tok |-> here(SingleCharTypes[l.ch], l.ch)]
    ELSE IF l.ch \in DOMAIN declaredDelimiters
    THEN [l |-> readChar(l), tok |-> here(declaredDelimiters[l.ch], l.ch)]
    ELSE IF l.ch = "'"
    THEN LET r == readString(l)
         IN  [l |-> readChar(r.l), tok |-> Token("STRING", r.text, r.l.line, r.l.column)]
    ELSE IF l.ch = "/"
    THEN IF peekChar(l) = "/" THEN NextToken(skipLineComment(l))
         ELSE IF peekChar(l) = "*" THEN NextToken(skipBlockComment(l))
         ELSE [l |-> readChar(l), tok |-> here("ILLEGAL", byteString(l.ch))]
    ELSE IF l.ch = NUL
    THEN [l |-> readChar(l), tok |-> here("EOF", "")]
    ELSE IF isLetter(l.ch)
    THEN LET r == readIdentifier(l)
         IN  [l |-> r.l, tok |-> here(lookupIdent(r.text), r.text)]
    ELSE IF isDigit(l.ch)
    THEN LET r == readNumber(l)
         IN  [l |-> r.l, tok |-> Token("INT", r.text, r.l.line, r.l.column)]
    ELSE [l |-> readChar(l), tok |-> here("ILLEGAL", byteString(l.ch))]

\* Returns the lexer after the call and the token.
NextToken(l) == scanToken(skipWhitespace(l))

(***************************************************************************)
(* Parser (parser package).  The parser record carries, next to the fields *)
(* of the Go struct, what a method hands back: ok is the bool the latest   *)
(* expectPeek returned, node the node the running production is building   *)
(* or has returned (NilNode for a Go nil).                                 *)
(***************************************************************************)
TokenTypeString(t) ==
    IF t \in {"ILLEGAL", "EOF", "IDENT", "STRING", "INT", "ENTRY", "PRINT", "RETURN",
              "INT_TYPE", "LPAREN", "RPAREN", "LBRACE", "RBRACE", "ASSIGN", "COMMENT"}
              \cup Range(declaredKeywords) \cup Range(declaredDelimiters)
    THEN t ELSE "UNKNOWN"

\* r is what p.l.NextToken() returned and the lexer it left.
shiftToken(p, r) == [p EXCEPT !.curToken = p.peekToken, !.peekToken = r.tok, !.l = r.l]

nextToken(p) == shiftToken(p, NextToken(p.l))

NewParser(l) ==
    nextToken(nextToken([l |-> l, curToken |-> ZeroToken, peekToken |-> ZeroToken,
                         errors |-> <<>>, ok |-> TRUE, node |-> NilNode]))

peekError(p, t) ==
    [p EXCEPT !.errors = Append(@, "expected next token to be " \o TokenTypeString(t)
                                   \o ", got " \o TokenTypeString(p.peekToken.Type)
                                   \o " instead")]

expectPeek(p, t) ==
    IF p.peekToken.Type = t
    THEN [nextToken(p) EXCEPT !.ok = TRUE]
    ELSE [peekError(p, t) EXCEPT !.ok = FALSE]

\* if !p.expectPeek(t) { return nil } after an earlier step of the same
\* production: nothing more is done once one expectPeek has failed.
andExpect(p, t) == IF p.ok THEN expectPeek(p, t) ELSE p

\* !p.expectPeek(t1) && !p.expectPeek(t2) && ...: the types are tried in
\* turn until one is there; every one that is not records its error.
RECURSIVE expectPeekAny(_, _)
expectPeekAny(p, types) ==
    IF types = <<>> \/ p.ok THEN p
    ELSE expectPeekAny(expectPeek(p, Head(types)), Tail(types))

\* x.field = p.curToken.Literal on the node under construction.
setLiteral(p, field) ==
    IF p.ok THEN [p EXCEPT !.node = [@ EXCEPT ![field] = p.curToken.Literal]] ELSE p

\* The production's return: nil when one of its expectPeek failed.
returned(p) == IF p.ok THEN p ELSE [p EXCEPT !.node = NilNode]

\* append(list, item) when item != nil; q is the parser after the item's
\* production.
appendTo(list, q) == [q EXCEPT !.node = IF @ # NilNode THEN Append(list, @) ELSE list]

\* x.field = <a production>: q is the parser after that production, which
\* handed back q.node.
assignNode(p, field, q) == [q EXCEPT !.node = [p.node EXCEPT ![field] = q.node], !.ok = TRUE]

RECURSIVE parseExpression(_)
RECURSIVE parseArgumentListRest(_)

parseArgumentList(p) ==
    IF p.peekToken.Type = "RPAREN" THEN [p EXCEPT !.node = <<>>]
    ELSE parseArgumentListRest(appendTo(<<>>, parseExpression(nextToken(p))))

\* One iteration of the loop over the remaining arguments: the comma is
\* consumed, then one argument is parsed.
parseArgumentListBody(p) == appendTo(p.node, parseExpression(nextToken(nextToken(p))))

\* The loop over the remaining arguments; p.node holds the arguments so far.
parseArgumentListRest(p) ==
    IF p.peekToken.Type = "COMMA"
    THEN parseArgumentListRest(parseArgumentListBody(p))
    ELSE p

\* x.Arguments = p.parseArgumentList()
callArguments(p) ==
    IF p.ok THEN assignNode(p, "Arguments", parseArgumentList(p)) ELSE p

parseCallExpression(p) ==
    returned(andExpect(callArguments(
        expectPeek([p EXCEPT !.node = CallExpression(p.curToken.Literal, <<>>)], "LPAREN")),
        "RPAREN"))

parseExpression(p) ==
    CASE p.curToken.Type = "STRING" -> [p EXCEPT !.node = StringLiteral(p.curToken.Literal)]
      [] p.curToken.Type = "INT"    -> [p EXCEPT !.node = StringLiteral(p.curToken.Literal)]
      [] p.curToken.Type = "IDENT"  ->
            IF p.peekToken.Type = "LPAREN" THEN parseCallExpression(p)
            ELSE [p EXCEPT !.node = Identifier(p.curToken.Literal)]
      [] OTHER -> [p EXCEPT !.node = NilNode]

parseCallStatement(p) ==
    returned(andExpect(callArguments(
        expectPeek([p EXCEPT !.node = CallStatement(p.curToken.Literal, <<>>)], "LPAREN")),
        "RPAREN"))

\* p.nextToken(); stmt.Value = p.parseExpression()
assignValue(p) ==
    IF p.ok THEN assignNode(p, "Value", parseExpression(nextToken(p))) ELSE p

parseAssignStatement(p) ==
    returned(assignValue(
        expectPeek([p EXCEPT !.node = AssignStatement(p.curToken.Literal, NilNode)], "ASSIGN")))

parseInnerStatement(p) ==
    CASE p.curToken.Type = "IDENT" ->
            IF p.peekToken.Type = "ASSIGN" THEN parseAssignStatement(p)
            ELSE IF p.peekToken.Type = "LPAREN" THEN parseCallStatement(p)
            ELSE [p EXCEPT !.node = NilNode]
      [] p.curToken.Type \in {"PRINT", "RETURN"} -> parseCallStatement(p)
      [] OTHER -> [p EXCEPT !.node = NilNode]

\* One iteration of the loop of parseBlockStatement.
parseBlockStatementBody(p) ==
    IF p.curToken.Type = "COMMENT" THEN nextToken(p)
    ELSE nextToken(appendTo(p.node, parseInnerStatement(p)))

\* The loop of parseBlockStatement; p.node holds the statements so far.
RECURSIVE parseBlockStatementLoop(_)
parseBlockStatementLoop(p) ==
    IF p.curToken.Type # "RBRACE" /\ p.curToken.Type # "EOF"
    THEN parseBlockStatementLoop(parseBlockStatementBody(p))
    ELSE [p EXCEPT !.node = BlockStatement(@)]

parseBlockStatement(p) == parseBlockStatementLoop([nextToken(p) EXCEPT !.node = <<>>])

parseParameter(p) ==
    IF p.curToken.Type \in {"STRING_TYPE", "INT_TYPE"}
    THEN returned(setLiteral(
             expectPeek([p EXCEPT !.node = Parameter("", p.curToken.Literal)], "IDENT"),
             "Name"))
    ELSE IF p.curToken.Type = "IDENT"
    THEN returned(setLiteral(
             expectPeekAny([p EXCEPT !.node = Parameter(p.curToken.Literal, ""), !.ok = FALSE],
                           <<"STRING_TYPE", "INT_TYPE">>),
             "Type"))
    ELSE [p EXCEPT !.node = NilNode]

\* One iteration of the loop over the remaining parameters: the comma is
\* consumed, then one parameter is parsed.
parseParametersBody(p) == appendTo(p.node, parseParameter(nextToken(nextToken(p))))

\* The loop over the remaining parameters; p.node holds the parameters so far.
RECURSIVE parseParametersRest(_)
parseParametersRest(p) ==
    IF p.peekToken.Type = "COMMA"
    THEN parseParametersRest(parseParametersBody(p))
    ELSE p

parseParameters(p) ==
    IF p.peekToken.Type = "RPAREN" THEN [p EXCEPT !.node = <<>>]
    ELSE parseParametersRest(appendTo(<<>>, parseParameter(nextToken(p))))

\* stmt.Parameters = p.parseParameters()
functionParameters(p) ==
    IF p.ok THEN assignNode(p, "Parameters", parseParameters(p)) ELSE p

\* The three return-type syntaxes: () (Type), () Type, and () { .
functionReturnType(p) ==
    IF ~p.ok THEN p
    ELSE IF p.peekToken.Type = "LPAREN"
    THEN andExpect(setLiteral(expectPeekAny([nextToken(p) EXCEPT !.ok = FALSE],
                                            <<"INT_TYPE", "STRING_TYPE", "VOID_TYPE">>),
                              "ReturnType"),
                   "RPAREN")
    ELSE IF p.peekToken.Type \in {"INT_TYPE", "STRING_TYPE", "VOID_TYPE"}
    THEN setLiteral(nextToken(p), "ReturnType")
    ELSE [p EXCEPT !.node = [@ EXCEPT !.ReturnType = "Void"]]

\* stmt.Body = p.parseBlockStatement()
functionBody(p) ==
    IF p.ok THEN assignNode(p, "Body", parseBlockStatement(p)) ELSE p

parseFunctionStatement(p, isEntry) ==
    returned(functionBody(andExpect(functionReturnType(andExpect(functionParameters(andExpect(
        setLiteral(
            expectPeek([p EXCEPT !.node = FunctionStatement(isEntry, "", <<>>, "", NilNode)],
                       "IDENT"),
            "Name"),
        "LPAREN")), "RPAREN")), "LBRACE")))

parseStatement(p) ==
    CASE p.curToken.Type = "ENTRY"    -> parseFunctionStatement(p, TRUE)
      [] p.curToken.Type = "FUNCTION" -> parseFunctionStatement(p, FALSE)
      [] OTHER -> parseBlockStatement(p)

\* One iteration of the loop of ParseProgram.
ParseProgramBody(p) ==
    IF p.curToken.Type = "COMMENT" THEN nextToken(p)
    ELSE nextToken(appendTo(p.node, parseStatement(p)))

\* The loop of ParseProgram; p.node holds the statements so far.
RECURSIVE ParseProgramLoop(_)
ParseProgramLoop(p) ==
    IF p.curToken.Type # "EOF"
    THEN ParseProgramLoop(ParseProgramBody(p))
    ELSE [p EXCEPT !.node = Program(@)]

\* A ParseProgram that parses one statement and returns.
ParseProgramOnce(p) ==
    IF p.curToken.Type # "EOF"
    THEN [ParseProgramBody([p EXCEPT !.node = <<>>]) EXCEPT !.node = Program(@)]
    ELSE [p EXCEPT !.node = Program(<<>>)]

ParseProgram(p) == ParseProgramLoop([p EXCEPT !.node = <<>>])

\* main.go: lexer.New, parser.New, ParseProgram.
Parse(input) == ParseProgram(NewParser(NewLexer(input)))

(***************************************************************************)
(* Programs handed to Generate                                             *)
(***************************************************************************)
SA  == StringLiteral("a")
S7  == StringLiteral("7")
I7  == IntegerLiteral(7)
IdX == Identifier("x")

\* Statements of the body of an entry function that is the whole program.
EntryStmts ==
    { AssignStatement("x", SA),
      AssignStatement("x", I7),
      AssignStatement("x", CallExpression("f", <<>>)),
      CallStatement("Print", <<SA>>),
      CallStatement("Print", <<I7>>),
      CallStatement("Print", <<IdX>>),
      CallStatement("Return", <<I7>>),
      CallStatement("Return", <<S7>>),
      CallStatement("Return", <<IdX>>),
      CallStatement("f", <<>>) }

\* Statements of the body of an entry function that calls the function f.
CallerStmts ==
    { AssignStatement("x", SA),
      AssignStatement("x", I7),
      AssignStatement("x", CallExpression("f", <<>>)),
      AssignStatement("x", CallExpression("f", <<SA, I7>>)),
      CallStatement("Print", <<SA>>),
      CallStatement("Print", <<IdX>>),
      CallStatement("Return", <<IdX>>),
      CallStatement("f", <<>>),
      CallStatement("f", <<SA>>),
      CallStatement("f", <<I7>>),
      CallStatement("f", <<IdX>>),
      CallStatement("f", <<SA, I7>>) }

\* Statements of an ordinary-function body (x may be its parameter).
FuncStmts ==
    { AssignStatement("x", SA),
      AssignStatement("x", CallExpression("h", <<>>)),
      CallStatement("Print", <<SA>>),
      CallStatement("Print", <<IdX>>),
      CallStatement("Return", <<I7>>),
      CallStatement("Return", <<S7>>),
      CallStatement("Return", <<IdX>>),
      CallStatement("h", <<IdX>>) }

SeqsUpTo(S, n) == UNION {[1 .. k -> S] : k \in 0 .. n}

EntryBodies  == SeqsUpTo(EntryStmts, MaxStmts)
CallerBodies == SeqsUpTo(CallerStmts, MaxStmts)
FuncBodies  == SeqsUpTo(FuncStmts, MaxStmts)
ShortBodies == SeqsUpTo(FuncStmts, 1)

Entry(name, body) == FunctionStatement(TRUE, name, <<>>, "Int", BlockStatement(body))
Func(name, params, rt, body) == FunctionStatement(FALSE, name, params, rt, BlockStatement(body))

EchoF == Func("f", <<Parameter("x", "String")>>, "String",
              << CallStatement("Print", <<IdX>>), CallStatement("Return", <<IdX>>) >>)
ShowH == Func("h", <<Parameter("x", "Int")>>, "Void", << CallStatement("Print", <<IdX>>) >>)

EmptyProgram == Program(<<>>)

Programs ==
    \* one entry function, no ordinary function
    {Program(<< Entry("main", b) >>) : b \in EntryBodies}
    \* entry first, then the function it calls
    \cup {Program(<< Entry("main", b), EchoF >>) : b \in CallerBodies}
    \* ordinary function declared before the entry function
    \cup {Program(<< Func("f", <<>>, "Void", b),
                     Entry("main", << CallStatement("f", <<>>) >>) >>) : b \in FuncBodies}
    \* one text parameter
    \cup {Program(<< Entry("main", << CallStatement("f", <<SA>>) >>),
                     Func("f", <<Parameter("x", "String")>>, "String", b) >>) : b \in FuncBodies}
    \* one integer parameter, and a second function printing an integer
    \cup {Program(<< ShowH,
                     Entry("main", << CallStatement("f", <<I7>>) >>),
                     Func("f", <<Parameter("x", "Int")>>, "Int", b) >>) : b \in ShortBodies}
    \* two declared parameters
    \cup {Program(<< Entry("main", << CallStatement("f", <<SA, I7>>) >>),
                     Func("f", <<Parameter("y", "String"), Parameter("x", "Int")>>, "Void", b) >>)
              : b \in ShortBodies}
    \* no entry function
    \cup {Program(<< Func("f", <<>>, "Void", b) >>) : b \in ShortBodies}
    \* two entry functions
    \cup {Program(<< Entry("main", b), Entry("second", << CallStatement("Print", <<SA>>) >>) >>)
              : b \in ShortBodies}
    \cup {EmptyProgram}

(***************************************************************************)
(* State machine                                                           *)
(***************************************************************************)
\* codegen.New(): empty pool, counter 0, nothing written.
Init ==
    /\ source = <<>>
    /\ errors = <<>>
    /\ pc = "parsed"
    /\ program \in Programs
    /\ generator = NewCG
    /\ calls = 0
    /\ compiled = EmptyProgram
    /\ results = <<>>
    /\ lexer = NewLexer(source)
    /\ tokens = <<>>

\* cg.Generate(p) on the one long-lived generator; p is the program under
\* compilation or the empty program.
Generate(p) ==
    /\ calls < MaxCalls
    /\ \E order \in PoolOrders(generator, p) : generator' = GenerateOn(generator, p, order)
    /\ compiled' = p
    /\ calls' = calls + 1
    /\ UNCHANGED <<source, errors, pc, program, results, lexer, tokens>>

Next == \E p \in {program, EmptyProgram} : Generate(p)

Spec == Init /\ [][Next]_vars

\* codegen.New().Generate(program): a run on a freshly constructed generator,
\* whose returned string the caller keeps.
FreshRun ==
    /\ Len(results) < MaxRuns
    /\ \E order \in PoolOrders(NewCG, program) :
         results' = Append(results, GenerateOn(NewCG, program, order).output)
    /\ UNCHANGED <<source, errors, pc, program, generator, calls, compiled, lexer, tokens>>

NextFresh == FreshRun

SpecFresh == Init /\ [][NextFresh]_vars

(***************************************************************************)
(* The driver (cmd/assembly/main.go): source text, lexer, parser, and a    *)
(* fresh code generator when the parser recorded no error.                 *)
(***************************************************************************)
\* Statements as they are written in a source file.  callee and arg describe
\* a call of a user function: arg is "none", "text" or "int", value the text
\* between the quotes or the digits.
SrcCallNone == [text |-> <<"f", "(", ")">>, callee |-> "f", arg |-> "none", value |-> ""]
SrcCallText == [text |-> <<"f", "(", "'", "a", "'", ")">>,
                callee |-> "f", arg |-> "text", value |-> "a"]
SrcCallInt  == [text |-> <<"f", "(", "7", ")">>, callee |-> "f", arg |-> "int", value |-> "7"]
SrcCallInt2 == [text |-> <<"g", "(", "4", "2", ")">>,
                callee |-> "g", arg |-> "int", value |-> "42"]
SrcCallDigits == [text |-> <<"g", "(", "'", "7", "'", ")">>,
                  callee |-> "g", arg |-> "text", value |-> "7"]
SrcOther(text) == [text |-> text, callee |-> "", arg |-> "none", value |-> ""]

SourceStmts ==
    { SrcCallNone, SrcCallText, SrcCallInt, SrcCallInt2, SrcCallDigits,
      SrcOther(<<"x", " ", "=", " ", "'", "a", "'">>),
      SrcOther(<<"x", "=", "7">>),
      SrcOther(<<"x", " ", "=", " ", "f", "(", ")">>),
      SrcOther(<<"P", "r", "i", "n", "t", "(", "'", "a", "'", ")">>),
      SrcOther(<<"P", "r", "i", "n", "t", "(", "x", ")">>),
      SrcOther(<<"R", "e", "t", "u", "r", "n", "(", "0", ")">>) }

SourceBodies == SeqsUpTo(SourceStmts, MaxStmts)

RECURSIVE BodyText(_)
BodyText(b) == IF b = <<>> THEN <<>> ELSE <<"\n", "\t">> \o Head(b).text \o BodyText(Tail(b))

\* Entry main() { <statements, one per line> }
SourceOf(b) ==
    <<"E", "n", "t", "r", "y", " ", "m", "a", "i", "n", "(", ")", " ", "{">>
        \o BodyText(b) \o <<"\n", "}", "\n">>

Sources == {SourceOf(b) : b \in SourceBodies}

InitCompile ==
    /\ source \in Sources
    /\ errors = <<>>
    /\ pc = "source"
    /\ program = EmptyProgram
    /\ generator = NewCG
    /\ calls = 0
    /\ compiled = EmptyProgram
    /\ results = <<>>
    /\ lexer = NewLexer(source)
    /\ tokens = <<>>

\* l := lexer.New(source); p := parser.New(l); program := p.ParseProgram()
Parsed(p) ==
    /\ program' = p.node
    /\ errors' = p.errors

ParseSource ==
    /\ pc = "source"
    /\ Parsed(Parse(source))
    /\ pc' = "parsed"
    /\ UNCHANGED <<source, generator, calls, compiled, results, lexer, tokens>>

\* cg := codegen.New(); assembly := cg.Generate(program), skipped after
\* parse errors.
Compile ==
    /\ pc = "parsed"
    /\ errors = <<>>
    /\ \E order \in PoolOrders(NewCG, program) : generator' = GenerateOn(NewCG, program, order)
    /\ compiled' = program
    /\ calls' = calls + 1
    /\ pc' = "done"
    /\ UNCHANGED <<source, errors, program, results, lexer, tokens>>

NextCompile == ParseSource \/ Compile

SpecCompile == InitCompile /\ [][NextCompile]_vars

(***************************************************************************)
(* The parser on function declarations with an empty body.                 *)
(***************************************************************************)
TypeChars(type) ==
    CASE type = "Int"    -> <<"I", "n", "t">>
      [] type = "String" -> <<"S", "t", "r", "i", "n", "g">>
      [] type = "Void"   -> <<"V", "o", "i", "d">>

\* A parameter as written: `Type name` or `name Type`.
ParamForms == [order : {"TypeName", "NameType"}, type : {"Int", "String"}]

ParamName(i) == <<"x", "y", "z">>[i]

ParamText(pm, i) ==
    IF pm.order = "TypeName" THEN TypeChars(pm.type) \o <<" ", ParamName(i)>>
    ELSE <<ParamName(i), " ">> \o TypeChars(pm.type)

RECURSIVE ParamsText(_, _)
ParamsText(pms, i) ==
    IF i > Len(pms) THEN <<>>
    ELSE (IF i > 1 THEN <<",", " ">> ELSE <<>>) \o ParamText(pms[i], i) \o ParamsText(pms, i + 1)

\* A return type as written: (Type), Type, or nothing.
ReturnForms ==
    [form : {"paren", "bare"}, type : {"Int", "String", "Void"}]
        \cup {[form |-> "none", type |-> "Void"]}

ReturnText(rt) ==
    CASE rt.form = "paren" -> <<" ", "(">> \o TypeChars(rt.type) \o <<")">>
      [] rt.form = "bare"  -> <<" ">> \o TypeChars(rt.type)
      [] rt.form = "none"  -> <<>>

Headers == [entry : BOOLEAN, params : SeqsUpTo(ParamForms, MaxParams), rt : ReturnForms]

\* Entry f(<parameters>)<return type> { }   or   Function f(...)... { }
HeaderText(h) ==
    (IF h.entry THEN <<"E", "n", "t", "r", "y">>
                ELSE <<"F", "u", "n", "c", "t", "i", "o", "n">>)
        \o <<" ", "f", "(">> \o ParamsText(h.params, 1) \o <<")">> \o ReturnText(h.rt)
        \o <<" ", "{", " ", "}", "\n">>

InitParse ==
    /\ source \in {HeaderText(h) : h \in Headers}
    /\ errors = <<>>
    /\ pc = "source"
    /\ program = EmptyProgram
    /\ generator = NewCG
    /\ calls = 0
    /\ compiled = EmptyProgram
    /\ results = <<>>
    /\ lexer = NewLexer(source)
    /\ tokens = <<>>

NextParse == ParseSource

SpecParse == InitParse /\ [][NextParse]_vars

(***************************************************************************)
(* A caller of the lexer: lexer.New(input), then NextToken again and       *)
(* again, as parser.New and nextToken do.                                  *)
(***************************************************************************)
\* The pieces an input text is made of: single characters (xE9 is the byte
\* 0xE9, NUL the zero byte), an escaped quote and two keywords.
Pieces ==
    { <<"a">>, <<"7">>, <<"'">>, <<"\\">>, <<" ">>, <<"\n">>, <<"/">>, <<"*">>,
      <<"(">>, <<")">>, <<"{">>, <<"}">>, <<"=">>, <<",">>, <<"#">>,
      <<"\\", "'">>, <<"xE9">>, <<NUL>>, <<"I", "n", "t">>, <<"V", "o", "i", "d">> }

RECURSIVE Flatten(_)
Flatten(ps) == IF ps = <<>> THEN <<>> ELSE Head(ps) \o Flatten(Tail(ps))

Inputs == {Flatten(ps) : ps \in SeqsUpTo(Pieces, MaxInput)}

InitLex ==
    /\ source \in Inputs
    /\ errors = <<>>
    /\ pc = "source"
    /\ program = EmptyProgram
    /\ generator = NewCG
    /\ calls = 0
    /\ compiled = EmptyProgram
    /\ results = <<>>
    /\ lexer = NewLexer(source)
    /\ tokens = <<>>

Lexed(r) ==
    /\ lexer' = r.l
    /\ tokens' = Append(tokens, r.tok)

\* tok := l.NextToken(); a caller stops asking at most one call after the
\* input can have run out.
CallNextToken ==
    /\ Len(tokens) <= Len(source) + 1
    /\ Lexed(NextToken(lexer))
    /\ UNCHANGED <<source, errors, pc, program, generator, calls, compiled, results>>

NextLex == CallNextToken

SpecLex == InitLex /\ [][NextLex]_vars

(***************************************************************************)
(* Generate on functions that keep the result of a call: x = f(), other    *)
(* statements, then a use of x.                                            *)
(***************************************************************************)
\* What may stand between the assignment and the use of x.
Between ==
    { CallStatement("Print", <<SA>>),
      CallStatement("h", <<>>),
      AssignStatement("y", CallExpression("h", <<>>)),
      AssignStatement("y", SA) }

ResultBodies ==
    { << AssignStatement("x", CallExpression("f", <<>>)) >> \o mid \o << CallStatement(use, <<IdX>>) >>
        : mid \in SeqsUpTo(Between, MaxStmts), use \in {"Print", "Return"} }

\* x = f() ... in the entry function, or in an ordinary function it calls.
ResultPrograms ==
    LET f == Func("f", <<>>, "String", << CallStatement("Return", <<SA>>) >>)
        h == Func("h", <<>>, "String", << CallStatement("Return", <<S7>>) >>)
    IN  {Program(<< Entry("main", b), f, h >>) : b \in ResultBodies}
        \cup {Program(<< Entry("main", << CallStatement("g", <<>>) >>),
                         Func("g", <<>>, "String", b), f, h >>) : b \in ResultBodies}

InitResult ==
    /\ source = <<>>
    /\ errors = <<>>
    /\ pc = "parsed"
    /\ program \in ResultPrograms
    /\ generator = NewCG
    /\ calls = 0
    /\ compiled = EmptyProgram
    /\ results = <<>>
    /\ lexer = NewLexer(source)
    /\ tokens = <<>>

SpecResult == InitResult /\ [][Next]_vars

(***************************************************************************)
(* The parser on token streams of every shape: the caller pulls the tokens *)
(* of the source to the end of input, as the parser's nextToken will, and  *)
(* ParseProgram is then run on the source.                                 *)
(***************************************************************************)
EntryHeader == <<"E", "n", "t", "r", "y", " ", "m", "(", ")", " ", "{", " ">>

\* The pieces a source text is made of, each ending in a blank.
Chunks ==
    { EntryHeader,
      <<"F", "u", "n", "c", "t", "i", "o", "n", " ", "f", "(", " ">>,
      <<"P", "r", "i", "n", "t", "(", " ">>,
      <<"f", "(", ")", " ">>,
      <<"x", " ", "=", " ">>,
      <<"x", " ">>,
      <<"'", "a", "'", " ">>,
      <<"I", "n", "t", " ">>,
      <<",", " ">>, <<")", " ">>, <<"{", " ">>, <<"}", " ">> }

\* Up to MaxChunks pieces, at top level or after the header of an entry
\* function.
Texts ==
    {pre \o Flatten(ps) : pre \in {<<>>, EntryHeader}, ps \in SeqsUpTo(Chunks, MaxChunks)}

InitSyntax ==
    /\ source \in Texts
    /\ errors = <<>>
    /\ pc = "source"
    /\ program = EmptyProgram
    /\ generator = NewCG
    /\ calls = 0
    /\ compiled = EmptyProgram
    /\ results = <<>>
    /\ lexer = NewLexer(source)
    /\ tokens = <<>>

\* tok := l.NextToken(), until the end of input has been returned.
ReadToken ==
    /\ pc = "source"
    /\ \A i \in 1 .. Len(tokens) : tokens[i].Type # "EOF"
    /\ Lexed(NextToken(lexer))
    /\ UNCHANGED <<source, errors, pc, program, generator, calls, compiled, results>>

\* p := parser.New(lexer.New(source)); program := p.ParseProgram()
ParseTokens ==
    /\ pc = "source"
    /\ tokens # <<>> /\ tokens[Len(tokens)].Type = "EOF"
    /\ Parsed(Parse(source))
    /\ pc' = "parsed"
    /\ UNCHANGED <<source, generator, calls, compiled, results, lexer, tokens>>

NextSyntax == ReadToken \/ ParseTokens

SpecSyntax == InitSyntax /\ [][NextSyntax]_vars

\* What the latest Generate left in the generator.
output          == generator.output
stringConstants == generator.stringConstants
stringCounter   == generator.stringCounter
trace           == generator.trace

(***************************************************************************)
(* Reading a Program and an output                                         *)
(***************************************************************************)
RECURSIVE ExprTexts(_)
RECURSIVE ArgsTexts(_, _)
ExprTexts(e) ==
    CASE e.kind = "StringLiteral"  -> <<e.Value>>
      [] e.kind = "IntegerLiteral" -> <<FmtD(e.Value)>>
      [] e.kind = "CallExpression" -> ArgsTexts(e.Arguments, 1)
      [] OTHER -> <<>>

ArgsTexts(args, i) ==
    IF i > Len(args) THEN <<>> ELSE ExprTexts(args[i]) \o ArgsTexts(args, i + 1)

RECURSIVE StmtTexts(_)
RECURSIVE StmtsTexts(_, _)
StmtTexts(s) ==
    CASE s.kind = "FunctionStatement" -> StmtsTexts(s.Body.Statements, 1)
      [] s.kind = "BlockStatement"    -> StmtsTexts(s.Statements, 1)
      [] s.kind = "AssignStatement"   -> ExprTexts(s.Value)
      [] s.kind = "CallStatement"     -> ArgsTexts(s.Arguments, 1)
      [] OTHER -> <<>>

StmtsTexts(stmts, i) ==
    IF i > Len(stmts) THEN <<>> ELSE StmtTexts(stmts[i]) \o StmtsTexts(stmts, i + 1)

\* Every literal text of the program, in the order of the AST traversal.
LiteralsInOrder(prog) == StmtsTexts(prog.Statements, 1)

LiteralTexts(prog) == Range(LiteralsInOrder(prog))

RECURSIVE Dedup(_)
Dedup(q) ==
    IF q = <<>> THEN <<>>
    ELSE LET front == Dedup(SubSeq(q, 1, Len(q) - 1))
         IN  IF q[Len(q)] \in Range(front) THEN front ELSE Append(front, q[Len(q)])

IsData(l) == l[1] = "asciz"

\* The data-section entries of the latest output, in emission order.
DataLines == SelectSeq(output, IsData)

LeaLabels(lines) == {l[3] : l \in {m \in Range(lines) : m[1] = "lea"}}

EntryCount(prog) ==
    Cardinality({i \in 1 .. Len(prog.Statements) :
                    isFunc(prog.Statements[i]) /\ prog.Statements[i].IsEntry})

OrdinaryNames(prog) ==
    {prog.Statements[i].Name : i \in {j \in 1 .. Len(prog.Statements) :
                                        isFunc(prog.Statements[j]) /\ ~prog.Statements[j].IsEntry}}

\* Generate returns a string and nothing else: a generation that failed
\* could only show as a call that returned no assembly.
GenerationFailed == calls > 0 /\ output = <<>>

Generated == calls > 0

\* The callee and arguments of a call made by a statement, if it makes one.
IsCall(stmt) ==
    \/ stmt.kind = "CallStatement"
    \/ stmt.kind = "AssignStatement" /\ stmt.Value.kind = "CallExpression"

Callee(stmt) == IF stmt.kind = "CallStatement" THEN stmt.Function ELSE stmt.Value.Function

CallArgs(stmt) == IF stmt.kind = "CallStatement" THEN stmt.Arguments ELSE stmt.Value.Arguments

IsUserCall(stmt) == IsCall(stmt) /\ Callee(stmt) \notin {"Print", "Return"}

IsBuiltin(stmt, name) == stmt.kind = "CallStatement" /\ stmt.Function = name

IsLiteral(e) == e.kind \in {"StringLiteral", "IntegerLiteral"}

TextOf(e) == IF e.kind = "StringLiteral" THEN e.Value ELSE FmtD(e.Value)

\* The write and exit system calls of a piece of code, in order: a syscall
\* is a write after `mov rax, 1` and an exit after `mov rax, 60`.
RECURSIVE OpsFrom(_, _, _)
OpsFrom(lines, i, rax) ==
    IF i > Len(lines) THEN <<>>
    ELSE LET l == lines[i] IN
         IF l = <<"mov", "rax", "1">> THEN OpsFrom(lines, i + 1, "write")
         ELSE IF l = <<"mov", "rax", "60">> THEN OpsFrom(lines, i + 1, "exit")
         ELSE IF l = <<"syscall">> THEN <<rax>> \o OpsFrom(lines, i + 1, rax)
         ELSE OpsFrom(lines, i + 1, rax)

OpsOf(lines) == OpsFrom(lines, 1, "none")

(***************************************************************************)
(* Claims C1 - C10                                                         *)
(***************************************************************************)

\* C1: Generate is deterministic: any two runs of Generate on fresh
\* generators return the identical assembly for the same Program, the order
\* of the data-section entries included.
C1_GenerateDeterministic ==
    \A i, j \in 1 .. Len(results) : results[i] = results[j]

\* C2: Generate fails when the Program has no function flagged as entry, and
\* fails when it has two or more; in neither case does it return an assembly
\* program.
C2_EntryCountEnforced ==
    /\ (Generated /\ EntryCount(compiled) = 0) => GenerationFailed
    /\ (Generated /\ EntryCount(compiled) >= 2) => GenerationFailed

\* C3: a call (statement or call expression) whose callee is neither Print,
\* Return nor a declared ordinary function makes Generate fail, and no call
\* instruction or other code is emitted for it.
C3_UnknownCalleeRejected ==
    \A k \in 1 .. Len(trace) :
        (IsUserCall(trace[k].stmt) /\ Callee(trace[k].stmt) \notin OrdinaryNames(compiled))
            => (GenerationFailed /\ trace[k].lines = <<>>)

\* C4: a call to a user function with two or more arguments raises a
\* compile-time error; the call is never emitted with only its first argument
\* set up.
C4_ExtraArgumentsRejected ==
    \A k \in 1 .. Len(trace) :
        (IsUserCall(trace[k].stmt) /\ Len(CallArgs(trace[k].stmt)) >= 2)
            => (GenerationFailed /\ <<"call", Callee(trace[k].stmt)>> \notin Range(trace[k].lines))

DataLabel(t) == DataLines[CHOOSE i \in 1 .. Len(DataLines) : DataLines[i][3] = t][2]

LiteralUseResolved(rec) ==
    /\ (rec.stmt.kind = "AssignStatement" /\ IsLiteral(rec.stmt.Value))
           => rec.after[rec.stmt.Name] = DataLabel(TextOf(rec.stmt.Value))
    /\ (IsCall(rec.stmt) /\ Len(CallArgs(rec.stmt)) >= 1 /\ IsLiteral(CallArgs(rec.stmt)[1]))
           => \A L \in LeaLabels(rec.lines) : L = DataLabel(TextOf(CallArgs(rec.stmt)[1]))

\* C5: a literal text occurring N times (as string literals or as integer
\* literals with that decimal text) has exactly one data-section entry, every
\* use of it resolves to the label of that entry, and two different texts
\* never share a label.
C5_PoolingIdempotent ==
    Generated =>
        /\ \A t \in LiteralTexts(compiled) :
               Cardinality({i \in 1 .. Len(DataLines) : DataLines[i][3] = t}) = 1
        /\ \A i, j \in 1 .. Len(DataLines) :
               DataLines[i][3] # DataLines[j][3] => DataLines[i][2] # DataLines[j][2]
        /\ \A k \in 1 .. Len(trace) : LiteralUseResolved(trace[k])

\* C5 witness: the text 7 is used once as an integer literal and once as a
\* string literal, both uses load the same label, and another text is pooled.
C5_Witness ==
    /\ Generated
    /\ \E k1, k2 \in 1 .. Len(trace) :
          /\ IsBuiltin(trace[k1].stmt, "Return") /\ trace[k1].stmt.Arguments = <<I7>>
          /\ IsBuiltin(trace[k2].stmt, "Return") /\ trace[k2].stmt.Arguments = <<S7>>
          /\ LeaLabels(trace[k1].lines) # {}
          /\ LeaLabels(trace[k1].lines) = LeaLabels(trace[k2].lines)
    /\ \E i \in 1 .. Len(DataLines) : DataLines[i][3] = "a"

\* C6: pool labels are assigned in first-seen order of the literals during
\* the AST traversal (str_0, str_1, ...), and the data section lists the
\* pooled entries in that same registration order.
C6_RegistrationOrderEmitted ==
    calls = 1 =>
        LET seen == Dedup(LiteralsInOrder(compiled)) IN
        /\ Len(DataLines) = Len(seen)
        /\ \A i \in 1 .. Len(DataLines) :
               /\ DataLines[i][2] = "str_" \o ToString(i - 1)
               /\ DataLines[i][3] = seen[i]

\* C7: each Generate invocation starts from an empty string pool: the output
\* for a Program holds data-section entries only for literals of that
\* Program, never ones left over from an earlier call on the same generator.
C7_PoolFreshPerGenerate ==
    Generated => \A i \in 1 .. Len(DataLines) : DataLines[i][3] \in LiteralTexts(compiled)

OnlyOneEntry(prog) ==
    /\ Len(prog.Statements) = 1
    /\ isFunc(prog.Statements[1])
    /\ prog.Statements[1].IsEntry

ExpectedOps(stmt) ==
    IF IsBuiltin(stmt, "Print") THEN <<"write">>
    ELSE IF IsBuiltin(stmt, "Return") THEN <<"exit">>
    ELSE <<>>

\* C8: for a Program with exactly one entry function and no ordinary
\* function, the code under the entry symbol performs one write or exit for
\* each Print and Return statement of the body, in source order, none
\* dropped, added or reordered.
C8_EntryOpsInOrder ==
    (Generated /\ OnlyOneEntry(compiled)) =>
        /\ Len(trace) = Len(compiled.Statements[1].Body.Statements)
        /\ \A k \in 1 .. Len(trace) :
               /\ trace[k].stmt = compiled.Statements[1].Body.Statements[k]
               /\ OpsOf(trace[k].lines) = ExpectedOps(trace[k].stmt)

IsPoolLabel(label) == \E t \in DOMAIN stringConstants : stringConstants[t] = label

PoolText(label) == CHOOSE t \in DOMAIN stringConstants : stringConstants[t] = label

Registers == {"rax", "rdi", "rsi", "rdx", "r15"}

\* The operands that carry the value of a Return argument.
StatusOperands(arg, bindings) ==
    IF IsLiteral(arg) THEN {TextOf(arg)}
    ELSE IF arg.kind = "Identifier" /\ Has(bindings, arg.Value)
         THEN IF IsPoolLabel(bindings[arg.Value]) THEN {PoolText(bindings[arg.Value])}
              ELSE Registers
         ELSE {}

EndsWith(lines, tail) ==
    /\ Len(lines) >= Len(tail)
    /\ SubSeq(lines, Len(lines) - Len(tail) + 1, Len(lines)) = tail

\* C9: a Return statement with an argument emits, inside the entry function,
\* a process-exit system call whose status is the given value and no ret;
\* inside an ordinary function, the loading of the return value into rax
\* followed by the frame teardown and ret, and no exit system call.
C9_ReturnByFunctionKind ==
    \A k \in 1 .. Len(trace) :
        LET rec == trace[k] IN
        (IsBuiltin(rec.stmt, "Return") /\ Len(rec.stmt.Arguments) >= 1) =>
            IF rec.isEntry
            THEN /\ \E st \in StatusOperands(rec.stmt.Arguments[1], rec.before) :
                        EndsWith(rec.lines, exitSequence(st))
                 /\ <<"ret">> \notin Range(rec.lines)
            ELSE /\ \E l \in Range(rec.lines) :
                        /\ l[1] = "lea"
                        /\ l[2] = "rax"
                        /\ EndsWith(rec.lines, <<l>> \o returnSequence)
                 /\ <<"syscall">> \notin Range(rec.lines)

NotComment(l) == l[1] # "#"

\* What the call site of the source statement st has to consist of.
ExpectedCallLines(st) ==
    (CASE st.arg = "none" -> <<>>
       [] st.arg = "text" -> << <<"lea", "rdi", DataLabel(st.value)>> >>
       [] st.arg = "int"  -> << <<"mov", "rdi", st.value>> >>)
    \o << <<"call", st.callee>> >>

\* C10: for a source file compiled by the whole pipeline, a call of a user
\* function with no argument emits only the call instruction; with one text
\* literal it emits the load of rdi with the address of the pooled text and
\* then the call; with one integer literal it emits the load of rdi with the
\* literal numeric value and then the call.
C10_PipelineCallArgument ==
    pc = "done" =>
        \A b \in SourceBodies :
            source = SourceOf(b) =>
                /\ Len(trace) = Len(b)
                /\ \A k \in 1 .. Len(b) :
                       b[k].callee # "" =>
                           SelectSeq(trace[k].lines, NotComment) = ExpectedCallLines(b[k])

(***************************************************************************)
(* Claims C11 - C20                                                        *)
(***************************************************************************)
\* What the emitted instructions leave in the registers, read symbolically:
\* "arg" is what the caller put in rdi, "&l" the address of label l,
\* "ret:f" what the call of f left in rax, "len" the result of strlen (which
\* keeps rdi), "lost" a caller-saved register after a call.
TrackedRegs == {"rax", "rdi", "rsi", "rdx", "r15"}

EntryRegs == [r \in TrackedRegs |-> IF r = "rdi" THEN "arg" ELSE "none"]

StepRegs(regs, l) ==
    CASE l[1] = "lea" /\ l[2] \in TrackedRegs ->
            [regs EXCEPT ![l[2]] = IF l[3] \in TrackedRegs THEN regs[l[3]] ELSE "&" \o l[3]]
      [] l[1] = "mov" /\ l[2] \in TrackedRegs ->
            [regs EXCEPT ![l[2]] = IF l[3] \in TrackedRegs THEN regs[l[3]] ELSE l[3]]
      [] l = <<"call", "strlen">> -> [regs EXCEPT !.rax = "len"]
      [] l[1] = "call" /\ l # <<"call", "strlen">> ->
            [regs EXCEPT !.rax = "ret:" \o l[2], !.rdi = "lost", !.rsi = "lost", !.rdx = "lost"]
      [] l = <<"syscall">> -> [regs EXCEPT !.rax = "sysret"]
      [] OTHER -> regs

\* The registers after lines[i..], and the addresses handed to the write
\* system calls on the way (rsi at a syscall with rax = 1).
RECURSIVE RunLines(_, _, _)
RunLines(lines, i, st) ==
    IF i > Len(lines) THEN st
    ELSE RunLines(lines, i + 1,
             [regs   |-> StepRegs(st.regs, lines[i]),
              writes |-> IF lines[i] = <<"syscall">> /\ st.regs.rax = "1"
                         THEN Append(st.writes, st.regs.rsi) ELSE st.writes])

RunFrom(regs, lines) == RunLines(lines, 1, [regs |-> regs, writes |-> <<>>])

IsAssignedCall(stmt) == stmt.kind = "AssignStatement" /\ stmt.Value.kind = "CallExpression"

IsPrintOf(stmt, name) == IsBuiltin(stmt, "Print") /\ stmt.Arguments = <<Identifier(name)>>

\* Statement k is x = f(...) and statement k + 1 of the same function is Print(x).
AssignedCallThenPrint(k) ==
    /\ k + 1 <= Len(trace)
    /\ trace[k + 1].fn = trace[k].fn
    /\ trace[k + 1].index = trace[k].index + 1
    /\ IsAssignedCall(trace[k].stmt)
    /\ IsPrintOf(trace[k + 1].stmt, trace[k].stmt.Name)

\* C11: for x = f(...) immediately followed by Print(x), the print writes the
\* address the call of f left in rax, and loads no data-section label.
C11_PrintOfCallResultFromRax ==
    \A k \in 1 .. Len(trace) :
        AssignedCallThenPrint(k) =>
            LET called == RunFrom(EntryRegs, trace[k].lines).regs IN
            /\ called.rax = "ret:" \o trace[k].stmt.Value.Function
            /\ RunFrom(called, trace[k + 1].lines).writes = <<called.rax>>
            /\ LeaLabels(trace[k + 1].lines) = {}

\* C11 witness: x = f('a', 7) followed by Print(x) has been generated.
C11_Witness ==
    \E k \in 1 .. Len(trace) :
        /\ AssignedCallThenPrint(k)
        /\ Len(trace[k].stmt.Value.Arguments) = 2
        /\ RunFrom(EntryRegs, trace[k + 1].lines).writes # <<>>

\* The code of the statements of trace[k]'s function that precede statement k.
RECURSIVE LinesBefore(_, _)
LinesBefore(k, j) ==
    IF j >= k THEN <<>>
    ELSE (IF trace[j].fn = trace[k].fn THEN trace[j].lines ELSE <<>>) \o LinesBefore(k, j + 1)

\* The registers when statement k starts: the prologue and the parameter
\* setup leave rdi as the caller set it.
RegsAt(k) == RunFrom(EntryRegs, LinesBefore(k, 1)).regs

\* Statement k prints a name that is bound to the text parameter.
IsParamPrint(k) ==
    /\ ~trace[k].isEntry
    /\ IsBuiltin(trace[k].stmt, "Print")
    /\ Len(trace[k].stmt.Arguments) >= 1
    /\ trace[k].stmt.Arguments[1].kind = "Identifier"
    /\ Has(trace[k].before, trace[k].stmt.Arguments[1].Value)
    /\ HasParamPrefix(trace[k].before[trace[k].stmt.Arguments[1].Value])

\* C12: in an ordinary function with one text parameter, every Print of the
\* parameter writes the text whose address the caller placed in rdi, read
\* from rdi and not from a data-section label; each such Print, not only the
\* first.
C12_ParamPrintReadsArgument ==
    \A k \in 1 .. Len(trace) :
        IsParamPrint(k) =>
            /\ RunFrom(RegsAt(k), trace[k].lines).writes = <<"arg">>
            /\ LeaLabels(trace[k].lines) = {}

IsUserCallStatement(stmt) == stmt.kind = "CallStatement" /\ stmt.Function \notin {"Print", "Return"}

\* C13: a Call statement to a user function, its result ignored, leaves the
\* binding table of the function unchanged: no variable is added or rebound,
\* whatever the return type of the callee.
C13_CallStatementKeepsBindings ==
    \A k \in 1 .. Len(trace) :
        IsUserCallStatement(trace[k].stmt) => trace[k].after = trace[k].before

\* C13 witness: after x was bound, a function declared to return String has
\* been called as a statement and the binding table is as it was.
C13_Witness ==
    \E k \in 1 .. Len(trace) :
        /\ IsUserCallStatement(trace[k].stmt)
        /\ Has(trace[k].before, "x")
        /\ trace[k].after = trace[k].before
        /\ \E i \in 1 .. Len(compiled.Statements) :
               /\ compiled.Statements[i].Name = trace[k].stmt.Function
               /\ compiled.Statements[i].ReturnType = "String"

IsOrdinary(s) == isFunc(s) /\ ~s.IsEntry

\* The names of the ordinary functions, in declaration order.
RECURSIVE NamesOf(_)
NamesOf(stmts) == IF stmts = <<>> THEN <<>> ELSE <<Head(stmts).Name>> \o NamesOf(Tail(stmts))

OrdinaryInOrder(prog) == NamesOf(SelectSeq(prog.Statements, IsOrdinary))

PositionsOf(line) == {i \in 1 .. Len(output) : output[i] = line}

\* The symbols that start a routine: the helper, the start symbol and the
\* declared functions (the other labels are jump targets inside a routine).
IsRoutineLabel(l) ==
    /\ l[1] = "label"
    /\ l[2] \in {"strlen", "_start"} \cup Range(OrdinaryInOrder(compiled))

RECURSIVE LabelNames(_)
LabelNames(lines) == IF lines = <<>> THEN <<>> ELSE <<Head(lines)[2]>> \o LabelNames(Tail(lines))

RoutineLabels == LabelNames(SelectSeq(output, IsRoutineLabel))

\* C14: in every generated program the data section precedes the text
\* section, and the text section holds, in this order, the strlen helper
\* once, the entry code under _start, then every ordinary function under its
\* own name in declaration order, wherever the entry function stands.
C14_SectionAndRoutineOrder ==
    Generated =>
        \E d, x \in 1 .. Len(output) :
            /\ PositionsOf(<<".section", ".data">>) = {d}
            /\ PositionsOf(<<".section", ".text">>) = {x}
            /\ d < x
            /\ \A i \in 1 .. Len(output) : IsData(output[i]) => (d < i /\ i < x)
            /\ \A i \in 1 .. Len(output) : output[i][1] = "label" => x < i
            /\ RoutineLabels = <<"strlen", "_start">> \o OrdinaryInOrder(compiled)

\* C14 witness: a program whose first declaration is an ordinary function,
\* followed by the entry function and a second ordinary function.
C14_Witness ==
    /\ Generated
    /\ Len(compiled.Statements) = 3
    /\ IsOrdinary(compiled.Statements[1])
    /\ RoutineLabels = <<"strlen", "_start", "h", "f">>
    /\ DataLines # <<>>

\* The tokens of a text, up to and including the first end-of-input token.
RECURSIVE TokensFrom(_)
TokensFrom(l) ==
    LET r == NextToken(l) IN
    IF r.tok.Type = "EOF" THEN <<r.tok>> ELSE <<r.tok>> \o TokensFrom(r.l)

Tokenize(input) == TokensFrom(NewLexer(input))

\* The caller has just received the first end-of-input token.
TokensComplete ==
    /\ tokens # <<>>
    /\ \A i \in 1 .. Len(tokens) : (tokens[i].Type = "EOF") <=> (i = Len(tokens))

\* The characters of a literal: literals are slices of the source or the
\* string of one of its bytes.
CharsOf(lit) ==
    CHOOSE q \in {SubSeq(source, i, j) : i \in 1 .. Len(source) + 1, j \in 0 .. Len(source)}
                    \cup {runeBytes(b) : b \in HighBytes} : Join(q) = lit

\* The token literals in order, each followed by a blank.
RECURSIVE Rebuilt(_)
Rebuilt(toks) ==
    IF toks = <<>> THEN <<>> ELSE CharsOf(Head(toks).Literal) \o <<" ">> \o Rebuilt(Tail(toks))

KindsAndLiterals(toks) == [i \in 1 .. Len(toks) |-> <<toks[i].Type, toks[i].Literal>>]

CommentFree(text) ==
    \A i \in 1 .. Len(text) - 1 : ~(text[i] = "/" /\ text[i + 1] \in {"/", "*"})

RoundTrips == KindsAndLiterals(Tokenize(Rebuilt(tokens))) = KindsAndLiterals(tokens)

\* C15 as stated: for every comment-free source text, tokenizing it,
\* rebuilding a text from the token literals separated by whitespace and
\* tokenizing that text yields the same token kinds and literals.
C15_RoundTripAnyText ==
    (TokensComplete /\ CommentFree(source)) => RoundTrips

\* What does hold: the round trip of a comment-free text of ASCII characters
\* without a single quote.
RoundTripWithoutStrings ==
    (TokensComplete /\ CommentFree(source)
        /\ \A i \in 1 .. Len(source) : source[i] # "'" /\ source[i] \notin HighBytes)
        => RoundTrips

TokenTypes ==
    {"ILLEGAL", "EOF", "IDENT", "STRING", "INT", "COMMENT"}
        \cup Range(keywords) \cup Range(SingleCharTypes)
        \cup Range(declaredKeywords) \cup Range(declaredDelimiters)

\* The calls made so far returned tokens and none of them failed.
LexerSound ==
    /\ ~lexer.panicked
    /\ \A i \in 1 .. Len(tokens) : tokens[i].Type \in TokenTypes
    /\ Len(tokens) > Len(source) => \E i \in 1 .. Len(tokens) : tokens[i].Type = "EOF"

\* C16: for every finite input, repeated NextToken calls return an
\* end-of-input token after finitely many calls (at most one more than the
\* input has characters), every call returns a token, an unrecognised
\* character becomes an ILLEGAL token carrying that character, and no call
\* reads outside the input or fails.
C16_LexerTotal ==
    /\ LexerSound
    /\ \A i \in 1 .. Len(tokens) :
           tokens[i].Type = "ILLEGAL" => tokens[i].Literal \in Range(source)

Blanks == {" ", "\t", "\n", "\r"}

\* The 1-based index of the first character at or after index i that is not
\* whitespace (Len(text) + 1 when there is none).
RECURSIVE SkipBlanks(_, _)
SkipBlanks(text, i) ==
    IF i <= Len(text) /\ text[i] \in Blanks THEN SkipBlanks(text, i + 1) ELSE i

\* Where the next token starts.
TokenStart == SkipBlanks(source, lexer.position + 1)

DelimiterKind ==
    [c \in {"(", ")", "{", "}", "=", ","} |->
        CASE c = "(" -> "LPAREN"
          [] c = ")" -> "RPAREN"
          [] c = "{" -> "LBRACE"
          [] c = "}" -> "RBRACE"
          [] c = "=" -> "ASSIGN"
          [] c = "," -> "COMMA"]

RECURSIVE ClosingQuote(_, _)
ClosingQuote(text, i) ==
    IF i > Len(text) THEN Len(text) + 1
    ELSE IF text[i] = "'" THEN i
    ELSE IF text[i] = "\\" THEN ClosingQuote(text, i + 2)
    ELSE ClosingQuote(text, i + 1)

\* A NextToken call that starts at a single quote returns the STRING token
\* of the text up to the closing quote and consumes that quote; without a
\* closing quote the text runs to the end of the input, after which only the
\* end of input is left.
StringTokenReturned ==
    (TokenStart <= Len(source) /\ source[TokenStart] = "'") =>
        LET close == ClosingQuote(source, TokenStart + 1) IN
        /\ tokens'[Len(tokens')].Type = "STRING"
        /\ tokens'[Len(tokens')].Literal = Join(SubSeq(source, TokenStart + 1, close - 1))
        /\ close <= Len(source) => lexer'.position = close
        /\ close > Len(source) => lexer'.position > Len(source)

\* C18 as stated: a single quote starts a STRING token whose literal is the
\* exact input text up to, and excluding, the next single quote not preceded
\* by an escaping backslash, escapes kept verbatim; with no closing quote the
\* literal runs to the end of the input and the next token is end-of-input.
C18_StringLiteralAnyText == [][StringTokenReturned]_vars

\* What does hold: the same, for an input that contains no zero byte.
StringLiteralWithoutZeroByte ==
    [][(\A i \in 1 .. Len(source) : source[i] # NUL) => StringTokenReturned]_vars

\* The declaration the parser handed back for the header h, when the source
\* is its text.
ParsedHeader(h) == pc = "parsed" /\ source = HeaderText(h)

\* C19: for a well-formed function header whose return type is written as
\* (Type), as a bare Type, or omitted, with Type any of Int, String and Void,
\* the parser returns a FunctionStatement whose ReturnType is that type
\* (Void when omitted) and appends no diagnostic.
C19_ReturnTypeSpellings ==
    \A h \in Headers :
        ParsedHeader(h) =>
            /\ Len(program.Statements) = 1
            /\ program.Statements[1].kind = "FunctionStatement"
            /\ program.Statements[1].ReturnType = h.rt.type
            /\ errors = <<>>

ExpectedParameters(pms) == [i \in 1 .. Len(pms) |-> Parameter(ParamName(i), pms[i].type)]

\* C20: for a comma-separated parameter list in which each parameter is
\* written `Type name` or `name Type`, with Type Int or String, the parser
\* returns one Parameter per entry with the right name and type, in order,
\* and appends no diagnostic; an empty list gives no parameter and no
\* diagnostic.
C20_ParameterOrderings ==
    \A h \in Headers :
        ParsedHeader(h) =>
            /\ Len(program.Statements) = 1
            /\ program.Statements[1].kind = "FunctionStatement"
            /\ program.Statements[1].Parameters = ExpectedParameters(h.params)
            /\ errors = <<>>

(***************************************************************************)
(* Claims C21 - C30                                                        *)
(***************************************************************************)
\* The first token of the source is no keyword that opens a declaration.
StrayFirst == tokens # <<>> /\ tokens[1].Type \notin {"ENTRY", "FUNCTION", "EOF"}

\* The source text after its first token.
AfterFirstToken ==
    SubSeq(source, NextToken(NewLexer(source)).l.position + 1, Len(source))

\* C21: when the current top-level token is neither the entry keyword nor
\* the ordinary-function keyword, ParseProgram skips that token, appends no
\* statement and consumes no part of what follows: the Program is the one
\* parsed from the rest of the source.
C21_StrayTopLevelTokenSkipped ==
    (pc = "parsed" /\ StrayFirst) => program = Parse(AfterFirstToken).node

\* The parser standing where the caller of the lexer stands: the token before
\* last is its current token, the last one its peek token; errs are the
\* diagnostics recorded so far, and the list a running loop builds is empty.
ParserAt(errs) ==
    [l |-> lexer, curToken |-> tokens[Len(tokens) - 1], peekToken |-> tokens[Len(tokens)],
     errors |-> errs, ok |-> TRUE, node |-> <<>>]

Expectation(t, got) ==
    "expected next token to be " \o t \o ", got " \o got \o " instead"

Earlier == <<"earlier diagnostic">>

\* expectPeek(t) on a peek token of another kind: one diagnostic more, the
\* earlier ones kept, no token consumed.
FailedExpectation(p, t) ==
    LET q == expectPeek(p, t) IN
    /\ q.errors = Append(p.errors, Expectation(t, p.peekToken.Type))
    /\ q.l = p.l /\ q.curToken = p.curToken /\ q.peekToken = p.peekToken

\* A production ended by a failed expectation: exactly one diagnostic more
\* and an absent node.
Aborted(p, q) ==
    /\ Len(q.errors) = Len(p.errors) + 1
    /\ SubSeq(q.errors, 1, Len(p.errors)) = p.errors
    /\ q.node = NilNode

\* A production whose own expectations are its only source of diagnostics:
\* when one of them failed, its node is absent.
AbortedOnError(p, q) ==
    /\ SubSeq(q.errors, 1, Len(p.errors)) = p.errors
    /\ q.errors # p.errors => q.node = NilNode

\* C22: whenever expectPeek finds a token of another kind than expected,
\* exactly one diagnostic "expected next token to be X, got Y instead" is
\* appended, the current production returns an absent node, no token is
\* consumed by the failed expectation, ParseProgram still returns a Program,
\* and the diagnostic list only grows.
C22_MismatchAbortsProduction ==
    /\ Len(tokens) >= 2 =>
        LET p == ParserAt(Earlier) IN
        /\ \A t \in TokenTypes \ {p.peekToken.Type, "COMMENT"} : FailedExpectation(p, t)
        /\ p.peekToken.Type # "ASSIGN" => Aborted(p, parseAssignStatement(p))
        /\ p.peekToken.Type # "LPAREN" => Aborted(p, parseCallStatement(p))
        /\ p.peekToken.Type # "LPAREN" => Aborted(p, parseCallExpression(p))
        /\ p.peekToken.Type # "IDENT" => Aborted(p, parseFunctionStatement(p, FALSE))
        /\ AbortedOnError(p, parseParameter(p))
    /\ pc = "parsed" => DOMAIN program = {"Statements"}

\* Some call in the node n, statement or expression, has a CallExpression
\* among its arguments.
RECURSIVE HasCallArgument(_)
HasCallArgument(n) ==
    CASE n.kind = "FunctionStatement" -> HasCallArgument(n.Body)
      [] n.kind = "BlockStatement" ->
            \E i \in 1 .. Len(n.Statements) : HasCallArgument(n.Statements[i])
      [] n.kind = "AssignStatement" -> HasCallArgument(n.Value)
      [] n.kind \in {"CallStatement", "CallExpression"} ->
            \E i \in 1 .. Len(n.Arguments) :
                n.Arguments[i].kind = "CallExpression" \/ HasCallArgument(n.Arguments[i])
      [] OTHER -> FALSE

\* C23: a CallExpression appears in a parsed Program only as the value of
\* an Assignment: an identifier followed by ( inside the argument list of a
\* call is not accepted as a CallExpression argument without a diagnostic.
C23_CallExpressionOnlyAssigned ==
    (pc = "parsed" /\ errors = <<>>) => ~HasCallArgument(BlockStatement(program.Statements))

\* The iteration that took the parser from p to q consumed a token: the lexer
\* was asked for at least one more.
Consumed(p, q) == q.l.position > p.l.position

\* Each iteration of the four loops, started wherever its loop condition
\* holds, consumes at least one token.
IterationsConsume(p) ==
    /\ p.peekToken.Type = "COMMA" => Consumed(p, parseParametersBody(p))
    /\ p.peekToken.Type = "COMMA" => Consumed(p, parseArgumentListBody(p))
    /\ p.curToken.Type \notin {"RBRACE", "EOF"} => Consumed(p, parseBlockStatementBody(p))
    /\ p.curToken.Type # "EOF" => Consumed(p, ParseProgramBody(p))

\* ParseProgram came back standing on the end-of-input token, with a Program.
ReturnedAtEnd(p) ==
    /\ p.curToken.Type = "EOF"
    /\ DOMAIN p.node = {"Statements"}
    /\ p.node = program

\* C24: ParseProgram terminates on every finite token stream: each iteration
\* of the loops in ParseProgram, parseBlockStatement, parseParameters and
\* parseArgumentList consumes at least one token, so the end-of-input token
\* is reached and the Program returned, also for streams with syntax errors
\* or unclosed blocks.
C24_ParseProgramTerminates ==
    /\ Len(tokens) >= 2 => IterationsConsume(ParserAt(<<>>))
    /\ pc = "parsed" => ReturnedAtEnd(Parse(source))

\* C24 witness: an entry function whose block is never closed and whose call
\* lacks its closing parenthesis has been parsed, with a diagnostic.
C24_Witness ==
    /\ pc = "parsed"
    /\ source = EntryHeader \o <<"P", "r", "i", "n", "t", "(", " ", "'", "a", "'", " ", ",", " ">>
    /\ errors # <<>>
    /\ Len(program.Statements) = 1

\* The token the latest NextToken call returned.
LastToken == tokens[Len(tokens)]

\* C25: end-of-input is absorbing and final: once NextToken has returned an
\* end-of-input token every later call returns end-of-input, and an
\* end-of-input token is returned only when every character of the input
\* has been consumed, for every input byte sequence, one containing a zero
\* byte included.
C25_EndOfInputAbsorbing ==
    [][ /\ (tokens # <<>> /\ LastToken.Type = "EOF") => LastToken'.Type = "EOF"
        /\ LastToken'.Type = "EOF" => lexer'.position >= Len(source) ]_vars

\* What does hold: the same, for an input that contains no zero byte.
EndOfInputWithoutZeroByte ==
    [][ (\A i \in 1 .. Len(source) : source[i] # NUL) =>
            /\ (tokens # <<>> /\ LastToken.Type = "EOF") => LastToken'.Type = "EOF"
            /\ LastToken'.Type = "EOF" => lexer'.position > Len(source) ]_vars

\* The index after the line comment that starts at index i: that of its
\* newline, or Len(text) + 1.
RECURSIVE EndOfLine(_, _)
EndOfLine(text, i) ==
    IF i > Len(text) \/ text[i] = "\n" THEN i ELSE EndOfLine(text, i + 1)

\* The index after the block comment whose text starts at index i: the one
\* after its closing */, or Len(text) + 1.
RECURSIVE EndOfBlock(_, _)
EndOfBlock(text, i) ==
    IF i > Len(text) THEN i
    ELSE IF i < Len(text) /\ text[i] = "*" /\ text[i + 1] = "/" THEN i + 2
    ELSE EndOfBlock(text, i + 1)

\* The index of the first character of the token that starts at or after
\* index i, behind whitespace and comments (Len(text) + 1 for the end of the
\* input).
RECURSIVE FirstCharacter(_, _)
FirstCharacter(text, i) ==
    LET j == SkipBlanks(text, i) IN
    IF j < Len(text) /\ text[j] = "/" /\ text[j + 1] = "/"
    THEN FirstCharacter(text, EndOfLine(text, j))
    ELSE IF j < Len(text) /\ text[j] = "/" /\ text[j + 1] = "*"
    THEN FirstCharacter(text, EndOfBlock(text, j + 2))
    ELSE j

\* Line of the character at index i, counted from 1.
LineOf(text, i) == 1 + Cardinality({k \in 1 .. i - 1 : text[k] = "\n"})

\* Column of the character at index i, the first character of a line being
\* at column 1.
ColumnOf(text, i) ==
    LET newlines == {k \in 1 .. i - 1 : text[k] = "\n"} IN
    IF newlines = {} THEN i ELSE i - CHOOSE k \in newlines : \A n \in newlines : n <= k

\* The token the call returned carries the line and column of its first
\* character (for the end-of-input token, of the position after the input's
\* last character).
PositionRecorded ==
    LET first == FirstCharacter(source, lexer.position + 1) IN
    first <= Len(source) + 1 =>
        /\ LastToken'.Line = LineOf(source, first)
        /\ LastToken'.Column = ColumnOf(source, first)

\* C26: for every token returned by NextToken, of every kind, the recorded
\* line and column are those of the token's first character (line counted
\* from 1 and incremented by each newline before it, column counted from the
\* start of that line).
C26_TokenPositions == [][PositionRecorded]_vars

\* What does hold: the same for every token that is neither a number nor a
\* string, in an input without a zero byte.
PositionsOfOtherTokens ==
    [][ (LastToken'.Type \notin {"INT", "STRING"}
            /\ \A i \in 1 .. Len(source) : source[i] # NUL) => PositionRecorded ]_vars

\* The labels the output defines, in either section.
DefinedLabels == {l[2] : l \in {m \in Range(output) : m[1] = "label"}}

\* The labels of the data-section entries written before line i.
DataLabelsBefore(i) == {output[k][2] : k \in {j \in 1 .. i - 1 : output[j][1] = "asciz"}}

\* The symbol line i of the output refers to, if any, is defined: the
\* address a lea takes is a data-section entry written earlier (or a
\* register), the target of a call or jump is a label of the output.
SymbolDefined(i) ==
    CASE output[i][1] = "lea" -> output[i][3] \in Registers \cup DataLabelsBefore(i)
      [] output[i][1] \in {"call", "je", "jmp"} -> output[i][2] \in DefinedLabels
      [] OTHER -> TRUE

\* C27: every symbol referenced by an instruction of the generated text
\* section (str_N labels, function names, parameter or marker names used as
\* operands) is defined in the same output; every str_N label the text
\* section uses has an entry in the data section emitted before it, also
\* when the label was first registered while the text section was generated.
C27_SymbolsDefined ==
    Generated => \A i \in 1 .. Len(output) : SymbolDefined(i)

\* The lines of the output that define a label: a label of the text section
\* or an entry of the data section.
IsDefinition(l) == l[1] \in {"label", "asciz"}

\* C28: in every generated program each label is defined exactly once:
\* _start, strlen and its loop labels, every str_N, every function name and
\* every helper label emitted at a print site (print_int_456, print_int_789,
\* print_int_done) appear as a definition at most once, whatever the number
\* of functions, entry declarations and Print statements.
C28_LabelsDefinedOnce ==
    Generated =>
        \A i, j \in 1 .. Len(output) :
            (i < j /\ IsDefinition(output[i]) /\ IsDefinition(output[j]))
                => output[i][2] # output[j][2]

\* Some Assignment in the node n has no value expression.
RECURSIVE HasAbsentValue(_)
HasAbsentValue(n) ==
    CASE n.kind = "FunctionStatement" -> HasAbsentValue(n.Body)
      [] n.kind = "BlockStatement" ->
            \E i \in 1 .. Len(n.Statements) : HasAbsentValue(n.Statements[i])
      [] n.kind = "AssignStatement" -> n.Value = NilNode
      [] OTHER -> FALSE

\* The number of tokens a complete node is written with: a call is its
\* name, two parentheses, its arguments and the commas between them; a block
\* is its opening token, its statements and its closing brace; a
\* declaration is its keyword, name and parentheses, two tokens for each
\* parameter and the commas between them, its return type when one is
\* written (the source texts of this model write no Void), and its block.
RECURSIVE TokensOf(_)
RECURSIVE TokensOfAll(_, _)
TokensOf(n) ==
    CASE n.kind \in {"StringLiteral", "Identifier"} -> 1
      [] n.kind \in {"CallStatement", "CallExpression"} ->
            3 + TokensOfAll(n.Arguments, 1)
              + (IF n.Arguments = <<>> THEN 0 ELSE Len(n.Arguments) - 1)
      [] n.kind = "AssignStatement" -> 2 + TokensOf(n.Value)
      [] n.kind = "BlockStatement" -> 2 + TokensOfAll(n.Statements, 1)
      [] n.kind = "FunctionStatement" ->
            4 + 2 * Len(n.Parameters)
              + (IF n.Parameters = <<>> THEN 0 ELSE Len(n.Parameters) - 1)
              + (IF n.ReturnType = "Void" THEN 0 ELSE 1)
              + TokensOf(n.Body)
      [] OTHER -> 0

TokensOfAll(nodes, i) ==
    IF i > Len(nodes) THEN 0 ELSE TokensOf(nodes[i]) + TokensOfAll(nodes, i + 1)

\* C29: when ParseProgram returns with an empty diagnostic list the tree is
\* complete: every Assignment in it has a present value expression, every
\* call has one argument node for each argument written in the source, and
\* each block ended at its own closing brace, so that the tree accounts for
\* every token of the source before the end of input.
C29_NoErrorsCompleteTree ==
    (pc = "parsed" /\ errors = <<>>) =>
        /\ ~HasAbsentValue(BlockStatement(program.Statements))
        /\ TokensOfAll(program.Statements, 1) = Len(tokens) - 1

IsUseOf(stmt, name) ==
    /\ stmt.kind = "CallStatement"
    /\ stmt.Function \in {"Print", "Return"}
    /\ stmt.Arguments = <<Identifier(name)>>

\* Statement k is x = f(...), statement j a later Print(x) or Return(x) of
\* the same function, and x is not assigned again in between.
AssignedCallThenUse(k, j) ==
    /\ k < j
    /\ trace[j].fn = trace[k].fn
    /\ IsAssignedCall(trace[k].stmt)
    /\ IsUseOf(trace[j].stmt, trace[k].stmt.Name)
    /\ \A m \in k + 1 .. j - 1 :
           ~(trace[m].stmt.kind = "AssignStatement" /\ trace[m].stmt.Name = trace[k].stmt.Name)

\* Statement j hands on the value v: a Print writes it, a Return leaves it
\* in rax at the ret of an ordinary function and passes it as the exit
\* status in the entry function.
UsesValue(j, v) ==
    LET ran == RunFrom(RegsAt(j), trace[j].lines) IN
    IF trace[j].stmt.Function = "Print" THEN ran.writes = <<v>>
    ELSE IF trace[j].isEntry THEN ran.regs.rdi = v
    ELSE ran.regs.rax = v

\* C30: after an assignment x = f(...), every later Print(x) or Return(x) in
\* the same function uses the value that this call to f returned, whatever
\* statements (other Print statements, other calls, other call assignments)
\* are generated between the assignment and the use.
C30_CallResultKept ==
    \A k, j \in 1 .. Len(trace) :
        AssignedCallThenUse(k, j) => UsesValue(j, "ret:" \o trace[k].stmt.Value.Function)

====
